---------------------------- MODULE Spec2Model ----------------------------
(***************************************************************************)
(* A model of the hls compiler pipeline (taka231/hls):                     *)
(*   source AST -> alpha conversion -> A-normalization -> Calyx generator  *)
(* followed by an execution of the control program generated for main.    *)
(*                                                                         *)
(* Identifiers are TLA+ strings, so that the fresh names built by          *)
(* format!("{}_{}", original, counter) can really coincide with names of   *)
(* the input program.                                                      *)
(***************************************************************************)
EXTENDS Integers, Sequences, FiniteSets, TLC

VARIABLES
    program,     \* the parsed input program (a sequence of top-level items)
    phase,       \* position of the driver (main.rs) in the pipeline
    ctx,         \* alpha.rs AlphaContext {env, counter}
    alpha_out,   \* items already produced by alpha_convert_program
    alpha_again, \* items produced by converting alpha_out once more
    norm_out,    \* items already produced by normalize_program
    calyx,       \* convert.rs Converter, after Converter::convert
    input,       \* the contents of the external memories before the run
    machine      \* registers, memories and remaining control of the run

vars == <<program, phase, ctx, alpha_out, alpha_again, norm_out, calyx, input,
         machine>>

(***************************************************************************)
(* Bounds of the model.                                                    *)
(***************************************************************************)
MaxLen == 2      \* longest array whose contents are enumerated exhaustively
MaxVal == 2      \* largest value stored in an enumerated input array

(***************************************************************************)
(* ast.rs: types, expressions, lets, top-level items.                      *)
(***************************************************************************)
TI(w) == [k |-> "I", w |-> w]
TArray(t, n) == [k |-> "Array", elem |-> t, n |-> n]
NoType == [k |-> "None"]
i32 == TI(32)
bool == TI(1)

IntLit(n) == [tag |-> "Int", n |-> n]
BoolLit(b) == [tag |-> "Bool", b |-> b]
Var(name) == [tag |-> "Var", name |-> name]
Add(l, r) == [tag |-> "Add", left |-> l, right |-> r]
Mul(l, r) == [tag |-> "Mul", left |-> l, right |-> r]
NewArray(ty, size) == [tag |-> "NewArray", ty |-> ty, size |-> size]
Map(arrays, params, body) ==
    [tag |-> "Map", arrays |-> arrays, params |-> params, body |-> body]
Reduce(array, init_value, param1, param2, body) ==
    [tag |-> "Reduce", array |-> array, init_value |-> init_value,
     param1 |-> param1, param2 |-> param2, body |-> body]
\* ast.rs and a_normalize.rs: the Reduce without an initial value
ReduceAst(array, param1, param2, body) ==
    [tag |-> "Reduce", array |-> array,
     param1 |-> param1, param2 |-> param2, body |-> body]
Call(name, args) == [tag |-> "Call", name |-> name, args |-> args]
ArraySet(name, index, value) ==
    [tag |-> "ArraySet", name |-> name, index |-> index, value |-> value]

BindLet(name, ty, value) == [tag |-> "BindLet", name |-> name, ty |-> ty, value |-> value]
NoBindLet(value) == [tag |-> "NoBindLet", value |-> value]
Expr_(lets, base) == [lets |-> lets, base |-> base]

ExternalDecl(name, ty) == [tag |-> "ExternalDecl", name |-> name, ty |-> ty]
FunDef(name, params, return_type, body) ==
    [tag |-> "FunDef", name |-> name, params |-> params,
     return_type |-> return_type, body |-> body]
Param(name, ty) == [name |-> name, ty |-> ty]

(***************************************************************************)
(* HashMap<String, _> as a function on a finite set of strings.            *)
(***************************************************************************)
EmptyMap == [n \in {} |-> ""]
insert(m, key, v) == [n \in DOMAIN m \cup {key} |-> IF n = key THEN v ELSE m[n]]

\* the value of a singleton set; with { body : v \in {value} } it names a
\* value that is computed once
The(S) == CHOOSE v \in S : TRUE

Range(s) == {s[i] : i \in DOMAIN s}

(***************************************************************************)
(* alpha.rs                                                                *)
(***************************************************************************)
RECURSIVE alpha_convert_base_expr(_, _)
RECURSIVE alpha_convert_expr(_, _)
RECURSIVE alpha_convert_base_exprs(_, _)
RECURSIVE alpha_convert_lets(_, _)
RECURSIVE bind_all(_, _)
RECURSIVE bind_params(_, _)
RECURSIVE alpha_convert_map(_, _)
RECURSIVE alpha_convert_reduce(_, _)

AlphaContext_default == [env |-> EmptyMap, counter |-> 0]

\* format!("{}_{}", original, self.counter)
fresh_format(original, counter) == original \o "_" \o ToString(counter)

\* fresh_name: the fresh name and the context with the counter advanced
fresh_name(c, original) ==
    [ctx |-> [c EXCEPT !.counter = c.counter + 1],
     out |-> fresh_format(original, c.counter)]

bind(c, original) ==
    The({ [ctx |-> [f.ctx EXCEPT !.env = insert(f.ctx.env, original, f.out)],
           out |-> f.out]
          : f \in {fresh_name(c, original)} })

\* a lookup that renames a name the environment does not hold
lookup_absent_renamed(c, name) ==
    IF name \in DOMAIN c.env THEN c.env[name] ELSE fresh_format(name, c.counter)

lookup(c, name) == IF name \in DOMAIN c.env THEN c.env[name] ELSE name

\* params.iter().map(|param| self.bind(param)).collect()
bind_all(c, names) ==
    IF names = <<>> THEN [ctx |-> c, out |-> <<>>]
    ELSE The({ The({ [ctx |-> r.ctx, out |-> <<b.out>> \o r.out]
                     : r \in {bind_all(b.ctx, Tail(names))} })
               : b \in {bind(c, Head(names))} })

\* fundef.params.iter().map(|(name, ty)| (self.bind(name), ty.clone()))
bind_params(c, params) ==
    IF params = <<>> THEN [ctx |-> c, out |-> <<>>]
    ELSE The({ The({ [ctx |-> r.ctx,
                      out |-> <<Param(b.out, Head(params).ty)>> \o r.out]
                     : r \in {bind_params(b.ctx, Tail(params))} })
               : b \in {bind(c, Head(params).name)} })

\* a lambda that forgets to put the saved environment back
lambda_restore_missing(c, saved_env) == c

\* self.env = saved_env at the end of a Map/Reduce lambda
lambda_restore(c, saved_env) == [c EXCEPT !.env = saved_env]

\* a Call whose callee is copied without being looked up
call_name_unresolved(c, name) == name

\* let new_name = self.lookup(name) of a Call
call_name(c, name) == lookup(c, name)

alpha_convert_expr(c, expr) ==
    The({ The({ [ctx |-> b.ctx, out |-> Expr_(ls.out, b.out)]
                : b \in {alpha_convert_base_expr(ls.ctx, expr.base)} })
          : ls \in {alpha_convert_lets(c, expr.lets)} })

alpha_convert_let(c, let_binding) ==
    The({ IF let_binding.tag = "BindLet"
          THEN The({ [ctx |-> b.ctx, out |-> BindLet(b.out, let_binding.ty, v.out)]
                     : b \in {bind(v.ctx, let_binding.name)} })
          ELSE [ctx |-> v.ctx, out |-> NoBindLet(v.out)]
          : v \in {alpha_convert_base_expr(c, let_binding.value)} })

alpha_convert_lets(c, lets) ==
    IF lets = <<>> THEN [ctx |-> c, out |-> <<>>]
    ELSE The({ The({ [ctx |-> r.ctx, out |-> <<l.out>> \o r.out]
                     : r \in {alpha_convert_lets(l.ctx, Tail(lets))} })
               : l \in {alpha_convert_let(c, Head(lets))} })

alpha_convert_base_exprs(c, es) ==
    IF es = <<>> THEN [ctx |-> c, out |-> <<>>]
    ELSE The({ The({ [ctx |-> r.ctx, out |-> <<e.out>> \o r.out]
                     : r \in {alpha_convert_base_exprs(e.ctx, Tail(es))} })
               : e \in {alpha_convert_base_expr(c, Head(es))} })

\* Map: arrays in the outer scope, then the parameters, then the body
alpha_convert_map(c, e) ==
    The({ The({ The({ [ctx |-> lambda_restore(b.ctx, as.ctx.env),
                       out |-> Map(as.out, ps.out, b.out)]
                      : b \in {alpha_convert_expr(ps.ctx, e.body)} })
                : ps \in {bind_all(as.ctx, e.params)} })
          : as \in {alpha_convert_base_exprs(c, e.arrays)} })

\* Reduce: array and initial value in the outer scope, then the two
\* parameters, then the body
alpha_convert_reduce(c, e) ==
    The({ The({ The({ The({ The({
              [ctx |-> lambda_restore(b.ctx, i.ctx.env),
               out |-> Reduce(a.out, i.out, p1.out, p2.out, b.out)]
              : b \in {alpha_convert_expr(p2.ctx, e.body)} })
              : p2 \in {bind(p1.ctx, e.param2)} })
              : p1 \in {bind(i.ctx, e.param1)} })
              : i \in {alpha_convert_base_expr(a.ctx, e.init_value)} })
              : a \in {alpha_convert_base_expr(c, e.array)} })

alpha_convert_base_expr(c, e) ==
    CASE e.tag \in {"Int", "Bool", "NewArray"} -> [ctx |-> c, out |-> e]
      [] e.tag = "Var" -> [ctx |-> c, out |-> Var(lookup(c, e.name))]
      [] e.tag \in {"Add", "Mul"} ->
            The({ The({ [ctx |-> r.ctx,
                         out |-> [tag |-> e.tag, left |-> l.out, right |-> r.out]]
                        : r \in {alpha_convert_base_expr(l.ctx, e.right)} })
                  : l \in {alpha_convert_base_expr(c, e.left)} })
      [] e.tag = "Map" -> alpha_convert_map(c, e)
      [] e.tag = "Reduce" -> alpha_convert_reduce(c, e)
      [] e.tag = "Call" ->
            The({ [ctx |-> as.ctx, out |-> Call(call_name(c, e.name), as.out)]
                  : as \in {alpha_convert_base_exprs(c, e.args)} })
      [] e.tag = "ArraySet" ->
            The({ The({ [ctx |-> v.ctx,
                         out |-> ArraySet(lookup(c, e.name), i.out, v.out)]
                        : v \in {alpha_convert_base_expr(i.ctx, e.value)} })
                  : i \in {alpha_convert_base_expr(c, e.index)} })

alpha_convert_external_decl(c, decl) ==
    [ctx |-> c, out |-> ExternalDecl(decl.name, decl.ty)]

\* self.env = saved_env; if fundef.name != "main" { self.env.insert(name, new_name) }
fundef_restore(c, saved_env, name, new_name) ==
    [c EXCEPT !.env = IF name # "main" THEN insert(saved_env, name, new_name)
                      ELSE saved_env]

alpha_convert_fundef(c, fundef) ==
    The({ The({ The({
          [ctx |-> fundef_restore(b.ctx, n.ctx.env, fundef.name, n.out),
           out |-> FunDef(n.out, ps.out, fundef.return_type, b.out)]
          : b \in {alpha_convert_expr(ps.ctx, fundef.body)} })
          : ps \in {bind_params(n.ctx, fundef.params)} })
          : n \in {IF fundef.name = "main" THEN [ctx |-> c, out |-> fundef.name]
                   ELSE bind(c, fundef.name)} })

alpha_convert_top(c, item) ==
    IF item.tag = "ExternalDecl" THEN alpha_convert_external_decl(c, item)
    ELSE alpha_convert_fundef(c, item)

\* the loop of alpha_convert_program that seeds the external names
RECURSIVE seed_externals(_, _)
seed_externals(c, prog) ==
    IF prog = <<>> THEN c
    ELSE seed_externals(IF Head(prog).tag = "ExternalDecl"
                        THEN [c EXCEPT !.env = insert(c.env, Head(prog).name,
                                                      Head(prog).name)]
                        ELSE c,
                        Tail(prog))


(***************************************************************************)
(* Input programs of the alpha-conversion runs.  Names are few, so that    *)
(* shadowing, self reference and coincidence with fresh names all occur.   *)
(***************************************************************************)
ArrTy == TArray(i32, MaxLen)

AlphaLets ==
    { BindLet("x", i32, IntLit(1)),
      BindLet("f", i32, Var("x")),
      BindLet("y", ArrTy, Map(<<Var("a")>>, <<"x">>, Expr_(<<>>, Mul(Var("x"), Var("y"))))),
      NoBindLet(ArraySet("a", IntLit(0), Call("f", <<Var("x")>>))) }

AlphaBases ==
    { Call("f", <<Var("x")>>),
      Add(Var("x"), Call("f", <<>>)),
      Call("main", <<>>),
      Map(<<Var("a")>>, <<"x">>, Expr_(<<>>, Add(Var("x"), Call("f", <<Var("x")>>)))),
      Map(<<Var("x"), Var("a")>>, <<"f", "x">>, Expr_(<<>>, Call("f", <<Var("x")>>))),
      Reduce(Var("a"), Var("x"), "x", "y",
             Expr_(<<BindLet("a", i32, Add(Var("x"), Var("y")))>>, Var("a"))),
      Reduce(Var("y"), IntLit(0), "y", "f",
             Expr_(<<>>, Map(<<Var("y")>>, <<"y">>, Expr_(<<>>, Call("f", <<Var("y")>>))))),
      ArraySet("a", Var("x"), Mul(Var("x"), Call("f", <<>>))) }

AlphaLetSeqs == {<<>>} \cup {<<l>> : l \in AlphaLets}
                \cup {<<BindLet("x", i32, IntLit(1)), l>> : l \in AlphaLets}

AlphaBodies == {Expr_(ls, b) : ls \in AlphaLetSeqs, b \in AlphaBases}

\* let _tmp: i32 = 1 in _tmp + 2
TmpBody == Expr_(<<BindLet("_tmp", i32, IntLit(1))>>, Add(Var("_tmp"), IntLit(2)))

AlphaMainBodies ==
    {Expr_(ls, b) : ls \in {<<>>, <<BindLet("f", i32, Var("x"))>>},
                    b \in {Call("f", <<Var("x")>>),
                           Map(<<Var("a")>>, <<"x">>, Expr_(<<>>, Call("f", <<Var("x")>>)))}}
    \cup {TmpBody}

AlphaParamLists == {<<>>, <<Param("x", i32)>>, <<Param("f", i32), Param("x", ArrTy)>>}

AlphaExternals == {ExternalDecl(n, ArrTy) : n \in {"a", "f_0"}}

AlphaFunDefs == {FunDef("f", ps, i32, b) : ps \in AlphaParamLists, b \in AlphaBodies}

AlphaMains == {FunDef("main", <<>>, NoType, b) : b \in AlphaMainBodies}

AlphaPrograms ==
    UNION { {<<e, f, m>>, <<f, e, m>>, <<e, m, f>>} :
            e \in AlphaExternals, f \in AlphaFunDefs, m \in AlphaMains }

(***************************************************************************)
(* The driver: alpha_convert_program, one top-level item per step.         *)
(***************************************************************************)
InitAlpha ==
    /\ program \in AlphaPrograms
    /\ phase = "start"
    /\ ctx = AlphaContext_default
    /\ alpha_out = <<>>
    /\ norm_out = <<>>
    /\ calyx = [ok |-> TRUE]
    /\ input = EmptyMap
    /\ machine = EmptyMap
    /\ alpha_again = <<>>

\* alpha.rs 187-193: a default context, then every external name self-mapped
AlphaSeed ==
    /\ phase = "start"
    /\ ctx' = seed_externals(AlphaContext_default, program)
    /\ phase' = "alpha"
    /\ UNCHANGED <<program, alpha_out, alpha_again, norm_out, calyx, input,
                   machine>>

\* alpha.rs 195-198: the next item goes through alpha_convert_top
AlphaTop ==
    /\ phase = "alpha"
    /\ Len(alpha_out) < Len(program)
    /\ \E r \in {alpha_convert_top(ctx, program[Len(alpha_out) + 1])} :
            /\ ctx' = r.ctx
            /\ alpha_out' = Append(alpha_out, r.out)
    /\ UNCHANGED <<program, phase, alpha_again, norm_out, calyx, input,
                   machine>>

AlphaDone == phase = "alpha" /\ Len(alpha_out) = Len(program)

NextAlpha == AlphaSeed \/ AlphaTop

SpecAlpha == InitAlpha /\ [][NextAlpha]_vars


(***************************************************************************)
(* Helpers of the alpha-conversion properties.                             *)
(***************************************************************************)
RECURSIVE BindersBase(_)
RECURSIVE BindersBases(_)
RECURSIVE BindersLets(_)
RECURSIVE LambdasBase(_)
RECURSIVE LambdasLets(_)
RECURSIVE LambdasBases(_)
RECURSIVE CallsBase(_, _, _, _)
RECURSIVE CallsBases(_, _, _, _)
RECURSIVE CallsLets(_, _, _, _)

NoDuplicates(s) == \A i, j \in DOMAIN s : s[i] = s[j] => i = j
ParamNames(params) == [i \in DOMAIN params |-> params[i].name]

\* the names introduced by the binders of an expression, in source order
BindersExpr(expr) == BindersLets(expr.lets) \o BindersBase(expr.base)

BindersLets(lets) ==
    IF lets = <<>> THEN <<>>
    ELSE LET l == Head(lets)
         IN  BindersBase(l.value)
             \o (IF l.tag = "BindLet" THEN <<l.name>> ELSE <<>>)
             \o BindersLets(Tail(lets))

BindersBases(es) ==
    IF es = <<>> THEN <<>> ELSE BindersBase(Head(es)) \o BindersBases(Tail(es))

BindersBase(e) ==
    CASE e.tag \in {"Add", "Mul"} -> BindersBase(e.left) \o BindersBase(e.right)
      [] e.tag = "Map" -> BindersBases(e.arrays) \o e.params \o BindersExpr(e.body)
      [] e.tag = "Reduce" ->
            BindersBase(e.array) \o BindersBase(e.init_value)
            \o <<e.param1, e.param2>> \o BindersExpr(e.body)
      [] e.tag = "Call" -> BindersBases(e.args)
      [] e.tag = "ArraySet" -> BindersBase(e.index) \o BindersBase(e.value)
      [] OTHER -> <<>>

BindersTop(item) ==
    IF item.tag = "ExternalDecl" THEN <<item.name>>
    ELSE <<item.name>> \o ParamNames(item.params) \o BindersExpr(item.body)

RECURSIVE BindersProgram(_)
BindersProgram(prog) ==
    IF prog = <<>> THEN <<>> ELSE BindersTop(Head(prog)) \o BindersProgram(Tail(prog))

\* the Map and Reduce nodes of an expression, nested ones included
LambdasExpr(expr) == LambdasLets(expr.lets) \cup LambdasBase(expr.base)

LambdasLets(lets) ==
    IF lets = <<>> THEN {}
    ELSE LambdasBase(Head(lets).value) \cup LambdasLets(Tail(lets))

LambdasBases(es) ==
    IF es = <<>> THEN {} ELSE LambdasBase(Head(es)) \cup LambdasBases(Tail(es))

LambdasBase(e) ==
    CASE e.tag \in {"Add", "Mul"} -> LambdasBase(e.left) \cup LambdasBase(e.right)
      [] e.tag = "Map" -> {e} \cup LambdasBases(e.arrays) \cup LambdasExpr(e.body)
      [] e.tag = "Reduce" ->
            {e} \cup LambdasBase(e.array) \cup LambdasBase(e.init_value)
                \cup LambdasExpr(e.body)
      [] e.tag = "Call" -> LambdasBases(e.args)
      [] e.tag = "ArraySet" -> LambdasBase(e.index) \cup LambdasBase(e.value)
      [] OTHER -> {}

\* src and out are an expression and its conversion.  Every Call of src to a
\* name of DOMAIN fmap that no local binder (the set shadowed) hides is, in
\* out, a Call to fmap[name].
CallsExpr(src, out, shadowed, fmap) ==
    /\ CallsLets(src.lets, out.lets, shadowed, fmap)
    /\ CallsBase(src.base, out.base,
                 shadowed \cup {src.lets[i].name :
                                  i \in {j \in DOMAIN src.lets : src.lets[j].tag = "BindLet"}},
                 fmap)

CallsLets(src, out, shadowed, fmap) ==
    \/ src = <<>>
    \/ /\ CallsBase(Head(src).value, Head(out).value, shadowed, fmap)
       /\ CallsLets(Tail(src), Tail(out),
                    IF Head(src).tag = "BindLet" THEN shadowed \cup {Head(src).name}
                    ELSE shadowed, fmap)

CallsBases(src, out, shadowed, fmap) ==
    \/ src = <<>>
    \/ /\ CallsBase(Head(src), Head(out), shadowed, fmap)
       /\ CallsBases(Tail(src), Tail(out), shadowed, fmap)

CallsBase(src, out, shadowed, fmap) ==
    CASE src.tag \in {"Add", "Mul"} ->
            /\ CallsBase(src.left, out.left, shadowed, fmap)
            /\ CallsBase(src.right, out.right, shadowed, fmap)
      [] src.tag = "Map" ->
            /\ CallsBases(src.arrays, out.arrays, shadowed, fmap)
            /\ CallsExpr(src.body, out.body, shadowed \cup Range(src.params), fmap)
      [] src.tag = "Reduce" ->
            /\ CallsBase(src.array, out.array, shadowed, fmap)
            /\ CallsBase(src.init_value, out.init_value, shadowed, fmap)
            /\ CallsExpr(src.body, out.body,
                         shadowed \cup {src.param1, src.param2}, fmap)
      [] src.tag = "Call" ->
            /\ (src.name \in DOMAIN fmap /\ src.name \notin shadowed)
                  => out.name = fmap[src.name]
            /\ CallsBases(src.args, out.args, shadowed, fmap)
      [] src.tag = "ArraySet" ->
            /\ CallsBase(src.index, out.index, shadowed, fmap)
            /\ CallsBase(src.value, out.value, shadowed, fmap)
      [] OTHER -> TRUE

IsFun(item) == item.tag = "FunDef" /\ item.name # "main"

\* the converted names of the non-main functions among the first k items,
\* the latest definition of a name first
RECURSIVE FunNames(_)
FunNames(k) ==
    IF k = 0 THEN EmptyMap
    ELSE IF IsFun(program[k])
         THEN insert(FunNames(k - 1), program[k].name, alpha_out[k].name)
         ELSE FunNames(k - 1)

\* the largest counter value a run can reach
MaxCounter == 12

(***************************************************************************)
(* C1 (alpha.rs fresh_name/bind, alpha_convert_program): once the whole    *)
(* program is converted, the names introduced by its binders (externals,   *)
(* functions, parameters, lets, lambda parameters) are pairwise distinct.  *)
(***************************************************************************)
C1_BindersDistinct == AlphaDone => NoDuplicates(BindersProgram(alpha_out))

(***************************************************************************)
(* C9 (alpha_convert_fundef, Call): every converted non-main function f    *)
(* is named f_k for a counter value k, main stays main and gets no         *)
(* mapping, and every Call to f that no local binder hides, in f's own     *)
(* body and in the later functions, names the converted f.                 *)
(***************************************************************************)
C9_CallsFollowFunction ==
    \A i \in 1..Len(alpha_out) :
        program[i].tag = "FunDef" =>
            /\ IF program[i].name = "main"
               THEN alpha_out[i].name = "main"
               ELSE \E k \in 0..MaxCounter :
                        alpha_out[i].name = program[i].name \o "_" \o ToString(k)
            /\ "main" \notin DOMAIN ctx.env
            /\ CallsExpr(program[i].body, alpha_out[i].body,
                         Range(ParamNames(program[i].params)), FunNames(i))

C9_Witness ==
    /\ AlphaDone
    /\ \E i \in 1..Len(program) :
          /\ IsFun(program[i])
          /\ program[i].body.base = Call("f", <<Var("x")>>)
          /\ alpha_out[i].body.base.name = alpha_out[i].name
          /\ \E j \in (i + 1)..Len(program) :
                /\ program[j].name = "main"
                /\ program[j].body = Expr_(<<>>, Call("f", <<Var("x")>>))
                /\ alpha_out[j].body.base.name = alpha_out[i].name

(***************************************************************************)
(* C10 (Map/Reduce and fundef restore): scopes do not leak.  Between two   *)
(* top-level items the environment holds the externals and the functions   *)
(* converted so far and nothing else; converting a Map or a Reduce in any  *)
(* such environment, or in one extended by a function's parameters, gives  *)
(* back the environment it started from, its array operands being resolved *)
(* in that outer environment.                                              *)
(***************************************************************************)
ExpectedEnv(k) ==
    LET seeded == seed_externals(AlphaContext_default, program).env
        funs == FunNames(k)
    IN  [n \in DOMAIN seeded \cup DOMAIN funs |->
            IF n \in DOMAIN funs THEN funs[n] ELSE seeded[n]]

LambdaContexts ==
    {ctx} \cup {bind_params(ctx, program[i].params).ctx :
                  i \in {j \in DOMAIN program : program[j].tag = "FunDef"}}

ProgramLambdas ==
    UNION {LambdasExpr(program[i].body) :
             i \in {j \in DOMAIN program : program[j].tag = "FunDef"}}

OuterOperands(e) == IF e.tag = "Map" THEN e.arrays ELSE <<e.array, e.init_value>>

C10_ScopesDoNotLeak ==
    phase = "alpha" =>
        /\ ctx.env = ExpectedEnv(Len(alpha_out))
        /\ \A e \in ProgramLambdas : \A c \in LambdaContexts :
              LET r == alpha_convert_base_expr(c, e)
                  src == OuterOperands(e)
                  out == OuterOperands(r.out)
              IN  /\ r.ctx.env = c.env
                  /\ \A n \in DOMAIN src :
                        src[n].tag = "Var" => out[n] = Var(lookup(c, src[n].name))

C10_Witness ==
    /\ AlphaDone
    /\ \E i \in DOMAIN program :
          /\ IsFun(program[i])
          /\ program[i].params # <<>>
          /\ program[i].body.lets # <<>>
          /\ program[i].body.base.tag = "Map"
          /\ "x" \notin DOMAIN ctx.env

(***************************************************************************)
(* Helpers of C11: the names an expression refers to (Var, the callee of a *)
(* Call, the array of an ArraySet) that nothing in scope binds.            *)
(***************************************************************************)
RECURSIVE FreeRefsBase(_, _, _)
RECURSIVE FreeRefsBases(_, _, _)
RECURSIVE FreeRefsLets(_, _, _)

LetNames(lets) ==
    {lets[i].name : i \in {j \in DOMAIN lets : lets[j].tag = "BindLet"}}

\* src and out are an expression and its conversion with the same structure;
\* a reference of src to a name outside the set bound is, in out, a
\* reference to the same name
FreeRefsExpr(src, out, bound) ==
    /\ Len(out.lets) = Len(src.lets)
    /\ FreeRefsLets(src.lets, out.lets, bound)
    /\ FreeRefsBase(src.base, out.base, bound \cup LetNames(src.lets))

FreeRefsLets(src, out, bound) ==
    \/ src = <<>>
    \/ /\ Head(out).tag = Head(src).tag
       /\ FreeRefsBase(Head(src).value, Head(out).value, bound)
       /\ FreeRefsLets(Tail(src), Tail(out),
                       IF Head(src).tag = "BindLet" THEN bound \cup {Head(src).name}
                       ELSE bound)

FreeRefsBases(src, out, bound) ==
    \/ src = <<>>
    \/ /\ out # <<>>
       /\ FreeRefsBase(Head(src), Head(out), bound)
       /\ FreeRefsBases(Tail(src), Tail(out), bound)

FreeRefsBase(src, out, bound) ==
    /\ out.tag = src.tag
    /\ CASE src.tag = "Var" -> src.name \notin bound => out.name = src.name
         [] src.tag \in {"Add", "Mul"} ->
               /\ FreeRefsBase(src.left, out.left, bound)
               /\ FreeRefsBase(src.right, out.right, bound)
         [] src.tag = "Map" ->
               /\ FreeRefsBases(src.arrays, out.arrays, bound)
               /\ FreeRefsExpr(src.body, out.body, bound \cup Range(src.params))
         [] src.tag = "Reduce" ->
               /\ FreeRefsBase(src.array, out.array, bound)
               /\ FreeRefsBase(src.init_value, out.init_value, bound)
               /\ FreeRefsExpr(src.body, out.body,
                               bound \cup {src.param1, src.param2})
         [] src.tag = "Call" ->
               /\ src.name \notin bound => out.name = src.name
               /\ FreeRefsBases(src.args, out.args, bound)
         [] src.tag = "ArraySet" ->
               /\ src.name \notin bound => out.name = src.name
               /\ FreeRefsBase(src.index, out.index, bound)
               /\ FreeRefsBase(src.value, out.value, bound)
         [] OTHER -> out = src

ExternalNames == {program[i].name : i \in {j \in DOMAIN program :
                                             program[j].tag = "ExternalDecl"}}

\* the source names of the non-main functions among the first k items
FunsBefore(k) == {program[i].name : i \in {j \in 1..k : IsFun(program[j])}}

(***************************************************************************)
(* C11 (lookup, alpha_convert_program): alpha conversion never fails.      *)
(* From the first item on every external name is in the environment,       *)
(* mapped to itself unless a function of that name has been converted;     *)
(* every item converted so far is an item of the same kind, an external    *)
(* declaration with its name and type unchanged; and in a function every   *)
(* Var, Call name and ArraySet array name that neither a local binder nor  *)
(* a function converted so far binds (a free name, or an external declared *)
(* before or after the function) is emitted unchanged.                     *)
(***************************************************************************)
C11_UnboundNamesUnchanged ==
    /\ phase = "alpha" =>
          \A n \in ExternalNames :
              /\ n \in DOMAIN ctx.env
              /\ n \notin FunsBefore(Len(alpha_out)) => ctx.env[n] = n
    /\ \A i \in 1..Len(alpha_out) :
          /\ alpha_out[i].tag = program[i].tag
          /\ IF program[i].tag = "ExternalDecl"
             THEN alpha_out[i] = program[i]
             ELSE FreeRefsExpr(program[i].body, alpha_out[i].body,
                               Range(ParamNames(program[i].params))
                                  \cup FunsBefore(i))

\* a function that precedes the declaration of a has stored into a at the
\* free index x
C11_Witness ==
    /\ AlphaDone
    /\ IsFun(program[1])
    /\ program[1].params = <<>>
    /\ program[1].body.lets = <<>>
    /\ program[1].body.base.tag = "ArraySet"
    /\ program[2] = ExternalDecl("a", ArrTy)
    /\ alpha_out[1].body.base.name = "a"
    /\ alpha_out[1].body.base.index = Var("x")
    /\ alpha_out[2] = program[2]

(***************************************************************************)
(* alpha_convert_program as a function of the program, and a driver that   *)
(* applies it to a program and then to its own output.                     *)
(***************************************************************************)
RECURSIVE alpha_convert_items(_, _)
\* program.iter().map(|item| ctx.alpha_convert_top(item)).collect()
alpha_convert_items(c, prog) ==
    IF prog = <<>> THEN <<>>
    ELSE The({ <<r.out>> \o alpha_convert_items(r.ctx, Tail(prog))
               : r \in {alpha_convert_top(c, Head(prog))} })

alpha_convert_program(prog) ==
    alpha_convert_items(seed_externals(AlphaContext_default, prog), prog)

\* programs that refer to an external whose name has the form of a fresh name
TwiceExtra ==
    { <<ExternalDecl("f_0", ArrTy),
        FunDef("f", ps, i32, Expr_(ls, ArraySet("f_0", IntLit(0), Var("x")))),
        m>> : ps \in AlphaParamLists, ls \in AlphaLetSeqs, m \in AlphaMains }

TwicePrograms == AlphaPrograms \cup TwiceExtra

InitTwice ==
    /\ program \in TwicePrograms
    /\ phase = "start"
    /\ ctx = AlphaContext_default
    /\ alpha_out = <<>>
    /\ alpha_again = <<>>
    /\ norm_out = <<>>
    /\ calyx = [ok |-> TRUE]
    /\ input = EmptyMap
    /\ machine = EmptyMap

\* the first application
AlphaOnce ==
    /\ phase = "start"
    /\ alpha_out' = alpha_convert_program(program)
    /\ phase' = "once"
    /\ UNCHANGED <<program, ctx, alpha_again, norm_out, calyx, input, machine>>

\* the application to the output of the first
AlphaTwice ==
    /\ phase = "once"
    /\ alpha_again' = alpha_convert_program(alpha_out)
    /\ phase' = "twice"
    /\ UNCHANGED <<program, ctx, alpha_out, norm_out, calyx, input, machine>>

NextTwice == AlphaOnce \/ AlphaTwice

SpecTwice == InitTwice /\ [][NextTwice]_vars

(***************************************************************************)
(* Helpers of C12.  s, e1 and e2 are a source expression, its conversion   *)
(* and the conversion of that; scope maps the source names that a binder   *)
(* in scope binds to the name the second application gave to that binder.  *)
(***************************************************************************)
RECURSIVE AgainBase(_, _, _, _)
RECURSIVE AgainBases(_, _, _, _)
RECURSIVE AgainLets(_, _, _, _)
RECURSIVE ScopeOfLets(_, _, _)
RECURSIVE ScopeOfNames(_, _, _)

\* b2 is b1 with one more suffix
Suffixed(b1, b2) == \E k \in 0..MaxCounter : b2 = fresh_format(b1, k)

\* a reference to a bound name follows its binder, any other stays
Resolved(scope, s, r1, r2) ==
    IF s \in DOMAIN scope THEN r2 = scope[s] ELSE r2 = r1

ScopeOfNames(scope, names, names2) ==
    IF names = <<>> \/ names2 = <<>> THEN scope
    ELSE ScopeOfNames(insert(scope, Head(names), Head(names2)),
                      Tail(names), Tail(names2))

ScopeOfLets(scope, lets, lets2) ==
    IF lets = <<>> \/ lets2 = <<>> THEN scope
    ELSE ScopeOfLets(IF Head(lets).tag = "BindLet"
                     THEN insert(scope, Head(lets).name, Head(lets2).name)
                     ELSE scope,
                     Tail(lets), Tail(lets2))

SuffixedAll(names1, names2) ==
    /\ Len(names2) = Len(names1)
    /\ \A i \in DOMAIN names1 : Suffixed(names1[i], names2[i])

AgainExpr(s, e1, e2, scope) ==
    /\ AgainLets(s.lets, e1.lets, e2.lets, scope)
    /\ AgainBase(s.base, e1.base, e2.base, ScopeOfLets(scope, s.lets, e2.lets))

AgainLets(s, l1, l2, scope) ==
    IF l1 = <<>> THEN l2 = <<>>
    ELSE /\ l2 # <<>>
         /\ Head(l2).tag = Head(l1).tag
         /\ AgainBase(Head(s).value, Head(l1).value, Head(l2).value, scope)
         /\ Head(l1).tag = "BindLet" =>
               /\ Head(l2).ty = Head(l1).ty
               /\ Suffixed(Head(l1).name, Head(l2).name)
         /\ AgainLets(Tail(s), Tail(l1), Tail(l2),
                      ScopeOfLets(scope, <<Head(s)>>, <<Head(l2)>>))

AgainBases(s, es1, es2, scope) ==
    IF es1 = <<>> THEN es2 = <<>>
    ELSE /\ es2 # <<>>
         /\ AgainBase(Head(s), Head(es1), Head(es2), scope)
         /\ AgainBases(Tail(s), Tail(es1), Tail(es2), scope)

AgainBase(s, e1, e2, scope) ==
    /\ e2.tag = e1.tag
    /\ CASE e1.tag = "Var" -> Resolved(scope, s.name, e1.name, e2.name)
         [] e1.tag \in {"Add", "Mul"} ->
               /\ AgainBase(s.left, e1.left, e2.left, scope)
               /\ AgainBase(s.right, e1.right, e2.right, scope)
         [] e1.tag = "Map" ->
               /\ AgainBases(s.arrays, e1.arrays, e2.arrays, scope)
               /\ SuffixedAll(e1.params, e2.params)
               /\ AgainExpr(s.body, e1.body, e2.body,
                            ScopeOfNames(scope, s.params, e2.params))
         [] e1.tag = "Reduce" ->
               /\ AgainBase(s.array, e1.array, e2.array, scope)
               /\ AgainBase(s.init_value, e1.init_value, e2.init_value, scope)
               /\ Suffixed(e1.param1, e2.param1)
               /\ Suffixed(e1.param2, e2.param2)
               /\ AgainExpr(s.body, e1.body, e2.body,
                            ScopeOfNames(scope, <<s.param1, s.param2>>,
                                         <<e2.param1, e2.param2>>))
         [] e1.tag = "Call" ->
               /\ Resolved(scope, s.name, e1.name, e2.name)
               /\ AgainBases(s.args, e1.args, e2.args, scope)
         [] e1.tag = "ArraySet" ->
               /\ Resolved(scope, s.name, e1.name, e2.name)
               /\ AgainBase(s.index, e1.index, e2.index, scope)
               /\ AgainBase(s.value, e1.value, e2.value, scope)
         [] OTHER -> e2 = e1

\* the functions in scope after the first k items
RECURSIVE FunScope(_)
FunScope(k) ==
    IF k = 0 THEN EmptyMap
    ELSE IF IsFun(program[k])
         THEN insert(FunScope(k - 1), program[k].name, alpha_again[k].name)
         ELSE FunScope(k - 1)

AgainTop(i) ==
    /\ alpha_again[i].tag = alpha_out[i].tag
    /\ IF alpha_out[i].tag = "ExternalDecl" THEN alpha_again[i] = alpha_out[i]
       ELSE /\ IF program[i].name = "main" THEN alpha_again[i].name = "main"
               ELSE Suffixed(alpha_out[i].name, alpha_again[i].name)
            /\ alpha_again[i].return_type = alpha_out[i].return_type
            /\ Len(alpha_again[i].params) = Len(alpha_out[i].params)
            /\ \A n \in DOMAIN alpha_out[i].params :
                  /\ alpha_again[i].params[n].ty = alpha_out[i].params[n].ty
                  /\ Suffixed(alpha_out[i].params[n].name,
                              alpha_again[i].params[n].name)
            /\ AgainExpr(program[i].body, alpha_out[i].body, alpha_again[i].body,
                         ScopeOfNames(FunScope(i), ParamNames(program[i].params),
                                      ParamNames(alpha_again[i].params)))

AgainSameProgram ==
    /\ Len(alpha_again) = Len(alpha_out)
    /\ \A i \in DOMAIN alpha_out : AgainTop(i)

(***************************************************************************)
(* C12 (alpha_convert_program applied twice): the second output has the    *)
(* structure of the first (items, lets, types, literals and operators in   *)
(* the same order), every binder but main and the externals carries one    *)
(* more _k suffix, every reference to a bound name carries the new name of *)
(* the binder it referred to, and the names the first application left     *)
(* unrenamed (main, externals, free names) are unrenamed again.            *)
(***************************************************************************)
C12_TwiceSameUpToSuffix == phase = "twice" => AgainSameProgram

\* the same on the programs whose first conversion has distinct binders
C12_SameWhenBindersDistinct ==
    (phase = "twice" /\ NoDuplicates(BindersProgram(alpha_out)))
        => AgainSameProgram

\* a function that calls itself from a lambda has been converted twice
C12_Example ==
    /\ phase = "twice"
    /\ AgainSameProgram
    /\ \E i \in DOMAIN program :
          /\ IsFun(program[i])
          /\ program[i].body.base.tag = "Map"
          /\ alpha_out[i].name = "f_0"
          /\ alpha_again[i].name = "f_0_0"

(***************************************************************************)
(* a_normalize.rs                                                          *)
(*                                                                         *)
(* A NormalizeState is [ok, temp_counter, type_env].  An Err(_) that `?`   *)
(* hands to the caller is the state Failed: every later step of the pass   *)
(* finds it and gives it back untouched, which is what returning at once   *)
(* amounts to.  An ANF operand is an identifier (ast.rs ANormalBaseExpr),  *)
(* i.e. a string.                                                          *)
(***************************************************************************)
RECURSIVE normalize_base_expr(_, _)
RECURSIVE normalize_binary(_, _)
RECURSIVE normalize_operands(_, _, _)
RECURSIVE normalize_array_set(_, _)
RECURSIVE normalize_call(_, _)
RECURSIVE normalize_map(_, _)
RECURSIVE normalize_reduce(_, _)
RECURSIVE normalize_lets(_, _)
RECURSIVE normalize_expr_with_state(_, _)

NormalizeState_new == [ok |-> TRUE, temp_counter |-> 0, type_env |-> EmptyMap]
Failed == [ok |-> FALSE]
TypeErr == [k |-> "Err"]

\* the result of a normalization that failed
NFail == [st |-> Failed, bindings |-> <<>>, out |-> IntLit(0)]

\* format!("_tmp_{}", self.temp_counter)
temp_format(counter) == "_tmp_" \o ToString(counter)

fresh_temp(st) ==
    [st |-> [st EXCEPT !.temp_counter = st.temp_counter + 1],
     out |-> temp_format(st.temp_counter)]

insert_type(st, name, ty) == [st EXCEPT !.type_env = insert(st.type_env, name, ty)]

get_type(st, name) ==
    IF name \in DOMAIN st.type_env THEN st.type_env[name] ELSE TypeErr

\* (Type::I(w1), Type::I(w2)) if w1 == w2 => Ok(Type::I(*w1)), _ => Err
arith_type(left_ty, right_ty) ==
    IF left_ty.k = "I" /\ right_ty.k = "I" /\ left_ty.w = right_ty.w
    THEN TI(left_ty.w) ELSE TypeErr

\* an element type read as the type of the whole array
element_type_whole(array_ty) == array_ty

\* Type::Array(element_ty, _) => Ok(element_ty), _ => Err
element_type(array_ty) ==
    IF array_ty.k = "Array" THEN array_ty.elem ELSE TypeErr

\* the type of a Map read from its last array
infer_anormal_type_last(expr, st) ==
    CASE expr.tag = "Int" -> i32
      [] expr.tag = "Bool" -> bool
      [] expr.tag = "Var" -> get_type(st, expr.name)
      [] expr.tag \in {"Add", "Mul"} ->
            arith_type(get_type(st, expr.left), get_type(st, expr.right))
      [] expr.tag = "NewArray" -> TArray(expr.ty, expr.size)
      [] expr.tag = "Call" -> i32
      [] expr.tag = "ArraySet" -> element_type(get_type(st, expr.name))
      [] expr.tag = "Map" ->
            IF expr.arrays # <<>> THEN get_type(st, expr.arrays[Len(expr.arrays)])
            ELSE TypeErr
      [] expr.tag = "Reduce" -> element_type(get_type(st, expr.array))

infer_anormal_type(expr, st) ==
    CASE expr.tag = "Int" -> i32
      [] expr.tag = "Bool" -> bool
      [] expr.tag = "Var" -> get_type(st, expr.name)
      [] expr.tag \in {"Add", "Mul"} ->
            arith_type(get_type(st, expr.left), get_type(st, expr.right))
      [] expr.tag = "NewArray" -> TArray(expr.ty, expr.size)
      [] expr.tag = "Call" -> i32
      [] expr.tag = "ArraySet" -> element_type(get_type(st, expr.name))
      [] expr.tag = "Map" ->
            IF expr.arrays # <<>> THEN get_type(st, expr.arrays[1]) ELSE TypeErr
      [] expr.tag = "Reduce" -> element_type(get_type(st, expr.array))

\* a binding put in front of the bindings made so far
push_front(bindings, binding) == <<binding>> \o bindings

\* bindings.push(binding)
push(bindings, binding) == Append(bindings, binding)

\* match result { Var(name) => name, other => { fresh_temp, infer, insert_type,
\* bindings.push(BindLet(temp, inferred, other)), temp } }
materialize(st, bindings, result) ==
    IF ~st.ok THEN NFail
    ELSE IF result.tag = "Var"
    THEN [st |-> st, bindings |-> bindings, out |-> result.name]
    ELSE The({ The({ IF inferred_ty = TypeErr THEN NFail
                     ELSE [st |-> insert_type(t.st, t.out, inferred_ty),
                           bindings |-> push(bindings,
                                             BindLet(t.out, inferred_ty, result)),
                           out |-> t.out]
                     : inferred_ty \in {infer_anormal_type(result, t.st)} })
               : t \in {fresh_temp(st)} })

\* Add and Mul: both sub-expressions are normalized, then the left and the
\* right result are materialized
normalize_binary(expr, st) ==
    The({ The({ The({ The({
          IF right_ident.st.ok
          THEN [st |-> right_ident.st, bindings |-> right_ident.bindings,
                out |-> [tag |-> expr.tag, left |-> left_ident.out,
                         right |-> right_ident.out]]
          ELSE NFail
          : right_ident \in {materialize(left_ident.st, left_ident.bindings, r.out)} })
          : left_ident \in {materialize(r.st, l.bindings \o r.bindings, l.out)} })
          : r \in {normalize_base_expr(expr.right, l.st)} })
          : l \in {normalize_base_expr(expr.left, st)} })

\* for arg in args { normalize; bindings.append; materialize; push the name }
normalize_operands(es, st, bindings) ==
    IF ~st.ok THEN NFail
    ELSE IF es = <<>> THEN [st |-> st, bindings |-> bindings, out |-> <<>>]
    ELSE The({ The({ The({
               IF rest.st.ok
               THEN [st |-> rest.st, bindings |-> rest.bindings,
                     out |-> <<ident.out>> \o rest.out]
               ELSE NFail
               : rest \in {normalize_operands(Tail(es), ident.st, ident.bindings)} })
               : ident \in {materialize(r.st, bindings \o r.bindings, r.out)} })
               : r \in {normalize_base_expr(Head(es), st)} })

normalize_call(expr, st) ==
    The({ IF args.st.ok
          THEN [st |-> args.st, bindings |-> args.bindings,
                out |-> Call(expr.name, args.out)]
          ELSE NFail
          : args \in {normalize_operands(expr.args, st, <<>>)} })

normalize_array_set(expr, st) ==
    The({ The({ The({ The({
          IF value_ident.st.ok
          THEN [st |-> value_ident.st, bindings |-> value_ident.bindings,
                out |-> ArraySet(expr.name, index_ident.out, value_ident.out)]
          ELSE NFail
          : value_ident \in {materialize(index_ident.st, index_ident.bindings, v.out)} })
          : index_ident \in {materialize(v.st, i.bindings \o v.bindings, i.out)} })
          : v \in {normalize_base_expr(expr.value, i.st)} })
          : i \in {normalize_base_expr(expr.index, st)} })

normalize_map(expr, st) ==
    The({ The({
          IF body.st.ok
          THEN [st |-> body.st, bindings |-> arrays.bindings,
                out |-> Map(arrays.out, expr.params, body.out)]
          ELSE NFail
          : body \in {normalize_expr_with_state(expr.body, arrays.st)} })
          : arrays \in {normalize_operands(expr.arrays, st, <<>>)} })

normalize_reduce(expr, st) ==
    The({ The({ The({
          IF body.st.ok
          THEN [st |-> body.st, bindings |-> array_ident.bindings,
                out |-> ReduceAst(array_ident.out, expr.param1, expr.param2,
                                  body.out)]
          ELSE NFail
          : body \in {normalize_expr_with_state(expr.body, array_ident.st)} })
          : array_ident \in {materialize(a.st, a.bindings, a.out)} })
          : a \in {normalize_base_expr(expr.array, st)} })

normalize_base_expr(expr, st) ==
    IF ~st.ok THEN NFail
    ELSE CASE expr.tag \in {"Int", "Bool", "Var", "NewArray"} ->
                [st |-> st, bindings |-> <<>>, out |-> expr]
           [] expr.tag \in {"Add", "Mul"} -> normalize_binary(expr, st)
           [] expr.tag = "Call" -> normalize_call(expr, st)
           [] expr.tag = "ArraySet" -> normalize_array_set(expr, st)
           [] expr.tag = "Map" -> normalize_map(expr, st)
           [] expr.tag = "Reduce" -> normalize_reduce(expr, st)

normalize_let(let_binding, st) ==
    The({ IF ~r.st.ok THEN NFail
          ELSE IF let_binding.tag = "BindLet"
          THEN [st |-> insert_type(r.st, let_binding.name, let_binding.ty),
                bindings |-> push(r.bindings,
                                  BindLet(let_binding.name, let_binding.ty, r.out)),
                out |-> r.out]
          ELSE [st |-> r.st, bindings |-> push(r.bindings, NoBindLet(r.out)),
                out |-> r.out]
          : r \in {normalize_base_expr(let_binding.value, st)} })

\* for let_binding in lets { normalize_let; normalized_bindings.append }
normalize_lets(lets, st) ==
    IF ~st.ok THEN NFail
    ELSE IF lets = <<>> THEN [st |-> st, bindings |-> <<>>, out |-> <<>>]
    ELSE The({ The({
               IF rest.st.ok
               THEN [st |-> rest.st, bindings |-> l.bindings \o rest.bindings,
                     out |-> <<>>]
               ELSE NFail
               : rest \in {normalize_lets(Tail(lets), l.st)} })
               : l \in {normalize_let(Head(lets), st)} })

normalize_expr_with_state(expr, st) ==
    The({ The({
          IF final.st.ok
          THEN [st |-> final.st, bindings |-> <<>>,
                out |-> Expr_(ls.bindings \o final.bindings, final.out)]
          ELSE NFail
          : final \in {normalize_base_expr(expr.base, ls.st)} })
          : ls \in {normalize_lets(expr.lets, st)} })

\* for (param_name, param_type) in &fundef.params { state.insert_type(..) }
RECURSIVE insert_params(_, _)
insert_params(st, params) ==
    IF params = <<>> THEN st
    ELSE insert_params(insert_type(st, Head(params).name, Head(params).ty),
                       Tail(params))

normalize_fundef(fundef) ==
    The({ IF body.st.ok
          THEN [ok |-> TRUE,
                out |-> FunDef(fundef.name, fundef.params, fundef.return_type,
                               body.out)]
          ELSE [ok |-> FALSE, out |-> fundef]
          : body \in {normalize_expr_with_state(
                          fundef.body,
                          insert_params(NormalizeState_new, fundef.params))} })

normalize_top_level(top_level) ==
    IF top_level.tag = "ExternalDecl" THEN [ok |-> TRUE, out |-> top_level]
    ELSE normalize_fundef(top_level)

(***************************************************************************)
(* Input programs of the normalization runs, named as alpha conversion     *)
(* leaves them: every binder carries its counter suffix, the external and  *)
(* the unresolved name q are unchanged.                                    *)
(***************************************************************************)
NormParams == <<Param("x_1", i32), Param("b_2", bool), Param("v_3", ArrTy)>>

NOperands == {Var("x_1"), Var("b_2"), Var("y_9"), Var("q"), IntLit(1)}

NArith ==
    {[tag |-> t, left |-> l, right |-> r] :
        t \in {"Add", "Mul"}, l \in NOperands, r \in NOperands}

NLambdas ==
    { ReduceAst(Var("v_3"), "p_4", "e_5",
                Expr_(<<>>, Add(Var("p_4"), Var("e_5")))),
      ReduceAst(Var("a"), "p_4", "e_5",
                Expr_(<<>>, Add(Var("p_4"), Var("e_5")))),
      ReduceAst(Map(<<Var("v_3")>>, <<"m_6">>, Expr_(<<>>, Var("m_6"))), "p_4", "e_5",
                Expr_(<<>>, Mul(Var("p_4"), Var("e_5")))),
      Map(<<Var("v_3")>>, <<"m_6">>, Expr_(<<>>, Mul(Var("m_6"), IntLit(2)))),
      Map(<<Var("v_3")>>, <<"m_6">>,
          Expr_(<<>>, Add(Mul(Var("m_6"), Var("m_6")), Var("m_6")))),
      Map(<<Var("v_3"), NewArray(i32, MaxLen)>>, <<"m_6", "n_7">>,
          Expr_(<<BindLet("w_8", i32, Add(Var("m_6"), Var("n_7")))>>,
                Mul(Add(Var("w_8"), IntLit(1)), Var("x_1")))),
      \* arrays of two types, the result taken from the second
      Map(<<NewArray(bool, MaxLen), Var("v_3")>>, <<"m_6", "n_7">>,
          Expr_(<<>>, Var("n_7"))),
      \* no array at all
      Map(<<>>, <<>>, Expr_(<<>>, IntLit(1))) }

NOps == NArith \cup NLambdas
        \cup {NewArray(i32, MaxLen), Call("f_0", <<Var("x_1")>>),
              ArraySet("x_1", IntLit(0), IntLit(1))}

NBases ==
    NOperands \cup NOps
    \cup {[tag |-> t, left |-> l, right |-> r] :
             t \in {"Add", "Mul"}, l \in NOps, r \in {IntLit(3), Var("b_2")}}
    \cup {Mul(Var("x_1"), r) : r \in NOps}
    \cup {ArraySet("v_3", IntLit(0), v) : v \in NOps \cup NOperands}
    \cup {Call("f_0", <<l, Var("x_1"), IntLit(2)>>) : l \in NArith}

NLetSeqs ==
    { <<>>,
      <<BindLet("y_9", i32, Add(Var("x_1"), IntLit(1)))>>,
      <<BindLet("y_9", bool, Mul(Add(Var("x_1"), Var("x_1")), IntLit(2))),
        NoBindLet(ArraySet("v_3", Var("y_9"), Add(Var("y_9"), Var("b_2"))))>> }

NormFunDefs ==
    {FunDef("f_0", NormParams, i32, Expr_(ls, b)) : ls \in NLetSeqs, b \in NBases}

\* let x: i32 = 1 in let y: i32 = 2 in a[0] := x + y * 3, a call, and a main
\* that cannot be typed
NormMains ==
    {FunDef("main", <<>>, NoType, b) :
        b \in { Expr_(<<BindLet("x_10", i32, IntLit(1)),
                        BindLet("y_11", i32, IntLit(2))>>,
                      ArraySet("a", IntLit(0),
                               Add(Var("x_10"), Mul(Var("y_11"), IntLit(3))))),
                Expr_(<<>>, Call("f_0", <<IntLit(1), BoolLit(TRUE), Var("a")>>)),
                Expr_(<<>>, Add(Add(Var("q"), IntLit(1)), IntLit(2))) }}

NormPrograms ==
    {<<ExternalDecl("a", ArrTy), f, m>> : f \in NormFunDefs, m \in NormMains}

(***************************************************************************)
(* The driver: normalize_program, one top-level item per step.  The first  *)
(* Err ends the collect and leaves no program.                             *)
(***************************************************************************)
InitNorm ==
    /\ program \in NormPrograms
    /\ phase = "norm"
    /\ ctx = AlphaContext_default
    /\ alpha_out = <<>>
    /\ norm_out = <<>>
    /\ calyx = [ok |-> TRUE]
    /\ input = EmptyMap
    /\ machine = EmptyMap
    /\ alpha_again = <<>>

NormTopOk ==
    /\ phase = "norm"
    /\ Len(norm_out) < Len(program)
    /\ \E r \in {normalize_top_level(program[Len(norm_out) + 1])} :
          /\ r.ok
          /\ norm_out' = Append(norm_out, r.out)
    /\ UNCHANGED <<program, phase, ctx, alpha_out, alpha_again, calyx, input,
                   machine>>

NormTopErr ==
    /\ phase = "norm"
    /\ Len(norm_out) < Len(program)
    /\ \E r \in {normalize_top_level(program[Len(norm_out) + 1])} : ~r.ok
    /\ norm_out' = <<>>
    /\ phase' = "norm_err"
    /\ UNCHANGED <<program, ctx, alpha_out, alpha_again, calyx, input, machine>>

NormOk == phase = "norm" /\ Len(norm_out) = Len(program)
NormErr == phase = "norm_err"
NormDone == NormOk \/ NormErr

NextNorm == NormTopOk \/ NormTopErr

SpecNorm == InitNorm /\ [][NextNorm]_vars

(***************************************************************************)
(* Helpers of the normalization properties.                                *)
(***************************************************************************)
RECURSIVE SrcType(_, _)
RECURSIVE ExpandBase(_, _)
RECURSIVE DenormalizeLets(_, _, _)
RECURSIVE Denormalize(_, _)
RECURSIVE TempTypesExpr(_, _, _, _)
RECURSIVE TempTypesBase(_, _, _)
RECURSIVE WellScopedExpr(_, _, _)
RECURSIVE WellScopedBase(_, _)
RECURSIVE MismatchExpr(_, _, _)
RECURSIVE MismatchBase(_, _)
RECURSIVE MismatchBases(_, _)
RECURSIVE UnresolvedExpr(_, _, _)
RECURSIVE UnresolvedBase(_, _)
RECURSIVE AllBindings(_)
RECURSIVE AllBindingsOfLets(_)

\* the largest temp index a run can allocate within one function
MaxTemp == 8

TempNames == {temp_format(k) : k \in 0..MaxTemp}
IsTemp(name) == name \in TempNames

\* every name a normalization run can meet
SourceNames ==
    {"a", "q", "f_0", "main", "x_1", "b_2", "v_3", "p_4", "e_5", "m_6", "n_7",
     "w_8", "y_9", "x_10", "y_11"}
Idents == SourceNames \cup TempNames

ParamTypes(params) ==
    [n \in Range(ParamNames(params)) |->
        (CHOOSE p \in Range(params) : p.name = n).ty]

\* the typing rules read on a source expression; a variable has the type of
\* its innermost binder.  The rules give no type to a Map (NoRule), nor to
\* an expression whose type would depend on that of a Map
Unknown == [k |-> "Unknown"]
IllTyped == [k |-> "IllTyped"]
NoRule == [k |-> "NoRule"]
SameWidth(lt, rt) == lt.k = "I" /\ rt.k = "I" /\ lt.w = rt.w
SrcArith(lt, rt) ==
    IF SameWidth(lt, rt) THEN TI(lt.w)
    ELSE IF NoRule \in {lt, rt} THEN NoRule ELSE IllTyped
SrcElem(ty) ==
    IF ty.k = "Array" THEN ty.elem
    ELSE IF ty = NoRule THEN NoRule ELSE IllTyped
SrcVar(name, env) == IF name \in DOMAIN env THEN env[name] ELSE Unknown

SrcType(e, env) ==
    CASE e.tag = "Int" -> i32
      [] e.tag = "Bool" -> bool
      [] e.tag = "Var" -> SrcVar(e.name, env)
      [] e.tag \in {"Add", "Mul"} ->
            SrcArith(SrcType(e.left, env), SrcType(e.right, env))
      [] e.tag = "NewArray" -> TArray(e.ty, e.size)
      [] e.tag = "Call" -> i32
      [] e.tag = "ArraySet" -> SrcElem(SrcVar(e.name, env))
      [] e.tag = "Reduce" -> SrcElem(SrcType(e.array, env))
      [] e.tag = "Map" -> NoRule

\* the environment of a lambda body: each parameter has the element type of
\* the array it ranges over
RECURSIVE LambdaEnv(_, _, _)
LambdaEnv(env, params, array_types) ==
    IF params = <<>> THEN env
    ELSE LambdaEnv(insert(env, Head(params),
                          IF array_types = <<>> THEN Unknown
                          ELSE SrcElem(Head(array_types))),
                   Tail(params),
                   IF array_types = <<>> THEN <<>> ELSE Tail(array_types))

MapEnv(e, env) ==
    LambdaEnv(env, e.params, [i \in DOMAIN e.arrays |-> SrcType(e.arrays[i], env)])
ReduceEnv(e, env) ==
    LambdaEnv(env, <<e.param1, e.param2>>,
              <<SrcType(e.array, env), SrcType(e.array, env)>>)

\* the source expression an ANF expression stands for: each temp is put
\* back where it is used (defs maps a temp to the expression it replaces)
ExpandIdent(name, defs) == IF name \in DOMAIN defs THEN defs[name] ELSE Var(name)

ExpandBase(e, defs) ==
    CASE e.tag \in {"Add", "Mul"} ->
            [tag |-> e.tag, left |-> ExpandIdent(e.left, defs),
             right |-> ExpandIdent(e.right, defs)]
      [] e.tag = "Call" ->
            Call(e.name, [i \in DOMAIN e.args |-> ExpandIdent(e.args[i], defs)])
      [] e.tag = "ArraySet" ->
            ArraySet(e.name, ExpandIdent(e.index, defs), ExpandIdent(e.value, defs))
      [] e.tag = "Map" ->
            Map([i \in DOMAIN e.arrays |-> ExpandIdent(e.arrays[i], defs)],
                e.params, Denormalize(e.body, defs))
      [] e.tag = "Reduce" ->
            ReduceAst(ExpandIdent(e.array, defs), e.param1, e.param2,
                      Denormalize(e.body, defs))
      [] OTHER -> e

IsTempLet(l) == l.tag = "BindLet" /\ IsTemp(l.name)

DenormalizeLets(lets, defs, acc) ==
    IF lets = <<>> THEN [defs |-> defs, lets |-> acc]
    ELSE IF IsTempLet(Head(lets))
    THEN DenormalizeLets(Tail(lets),
                         insert(defs, Head(lets).name,
                                ExpandBase(Head(lets).value, defs)),
                         acc)
    ELSE DenormalizeLets(Tail(lets), defs,
                         Append(acc, [Head(lets) EXCEPT
                                        !.value = ExpandBase(Head(lets).value, defs)]))

Denormalize(expr, defs) ==
    The({ Expr_(d.lets, ExpandBase(expr.base, d.defs))
          : d \in {DenormalizeLets(expr.lets, defs, <<>>)} })

\* the annotation of a temp against the rule for the expression it replaces
TempTypeOK(ty, src, env) == SrcType(src, env) \in {NoRule, ty}

\* every temp binding of an ANF expression carries the type of the source
\* expression it replaces
TempTypesBase(e, defs, env) ==
    CASE e.tag = "Map" ->
            TempTypesExpr(e.body.lets, e.body.base, defs,
                          MapEnv(ExpandBase(e, defs), env))
      [] e.tag = "Reduce" ->
            TempTypesExpr(e.body.lets, e.body.base, defs,
                          ReduceEnv(ExpandBase(e, defs), env))
      [] OTHER -> TRUE

TempTypesExpr(lets, base, defs, env) ==
    IF lets = <<>> THEN TempTypesBase(base, defs, env)
    ELSE /\ TempTypesBase(Head(lets).value, defs, env)
         /\ IF IsTempLet(Head(lets))
            THEN /\ TempTypeOK(Head(lets).ty, ExpandBase(Head(lets).value, defs), env)
                 /\ TempTypesExpr(Tail(lets), base,
                                  insert(defs, Head(lets).name,
                                         ExpandBase(Head(lets).value, defs)),
                                  env)
            ELSE TempTypesExpr(Tail(lets), base, defs,
                               IF Head(lets).tag = "BindLet"
                               THEN insert(env, Head(lets).name, Head(lets).ty)
                               ELSE env)

\* the operands of an ANF expression
Operands(e) ==
    CASE e.tag \in {"Add", "Mul"} -> {e.left, e.right}
      [] e.tag = "Call" -> Range(e.args)
      [] e.tag = "ArraySet" -> {e.index, e.value}
      [] e.tag = "Map" -> Range(e.arrays)
      [] e.tag = "Reduce" -> {e.array}
      [] OTHER -> {}

\* every operand is an identifier, and a temp only if a binding of the set
\* defined (the earlier bindings of this list and of the enclosing ones)
\* introduced it
WellScopedBase(e, defined) ==
    /\ \A o \in Operands(e) : o \in Idents /\ (IsTemp(o) => o \in defined)
    /\ e.tag \in {"Map", "Reduce"} =>
          WellScopedExpr(e.body.lets, e.body.base, defined)

WellScopedExpr(lets, base, defined) ==
    IF lets = <<>> THEN WellScopedBase(base, defined)
    ELSE /\ WellScopedBase(Head(lets).value, defined)
         /\ WellScopedExpr(Tail(lets), base,
                           IF Head(lets).tag = "BindLet"
                           THEN defined \cup {Head(lets).name} ELSE defined)

\* a source expression holds an Add or a Mul whose operands have known types
\* that are not two scalars of one width
Mismatched(lt, rt) ==
    /\ lt.k \in {"I", "Array"}
    /\ rt.k \in {"I", "Array"}
    /\ ~SameWidth(lt, rt)

MismatchBases(es, env) == \E i \in DOMAIN es : MismatchBase(es[i], env)

MismatchBase(e, env) ==
    CASE e.tag \in {"Add", "Mul"} ->
            \/ MismatchBase(e.left, env)
            \/ MismatchBase(e.right, env)
            \/ Mismatched(SrcType(e.left, env), SrcType(e.right, env))
      [] e.tag = "Call" -> MismatchBases(e.args, env)
      [] e.tag = "ArraySet" -> MismatchBases(<<e.index, e.value>>, env)
      [] e.tag = "Map" ->
            \/ MismatchBases(e.arrays, env)
            \/ MismatchExpr(e.body.lets, e.body.base, MapEnv(e, env))
      [] e.tag = "Reduce" ->
            \/ MismatchBase(e.array, env)
            \/ MismatchExpr(e.body.lets, e.body.base, ReduceEnv(e, env))
      [] OTHER -> FALSE

MismatchExpr(lets, base, env) ==
    IF lets = <<>> THEN MismatchBase(base, env)
    ELSE \/ MismatchBase(Head(lets).value, env)
         \/ MismatchExpr(Tail(lets), base,
                         IF Head(lets).tag = "BindLet"
                         THEN insert(env, Head(lets).name, Head(lets).ty)
                         ELSE env)

\* a source expression refers to a variable that no binder of the set scope
\* introduces
UnresolvedBase(e, scope) ==
    CASE e.tag = "Var" -> e.name \notin scope
      [] e.tag \in {"Add", "Mul"} ->
            UnresolvedBase(e.left, scope) \/ UnresolvedBase(e.right, scope)
      [] e.tag = "Call" -> \E i \in DOMAIN e.args : UnresolvedBase(e.args[i], scope)
      [] e.tag = "ArraySet" ->
            UnresolvedBase(e.index, scope) \/ UnresolvedBase(e.value, scope)
      [] e.tag = "Map" ->
            \/ \E i \in DOMAIN e.arrays : UnresolvedBase(e.arrays[i], scope)
            \/ UnresolvedExpr(e.body.lets, e.body.base, scope \cup Range(e.params))
      [] e.tag = "Reduce" ->
            \/ UnresolvedBase(e.array, scope)
            \/ UnresolvedExpr(e.body.lets, e.body.base,
                              scope \cup {e.param1, e.param2})
      [] OTHER -> FALSE

UnresolvedExpr(lets, base, scope) ==
    IF lets = <<>> THEN UnresolvedBase(base, scope)
    ELSE \/ UnresolvedBase(Head(lets).value, scope)
         \/ UnresolvedExpr(Tail(lets), base,
                           IF Head(lets).tag = "BindLet"
                           THEN scope \cup {Head(lets).name} ELSE scope)

\* the names of the top-level items: externals and functions
TopNames(prog) == {prog[i].name : i \in DOMAIN prog}

\* the externals' types, the environment a function is read in
ExternalTypes(prog) ==
    [n \in {prog[i].name : i \in {j \in DOMAIN prog : prog[j].tag = "ExternalDecl"}} |->
        (CHOOSE d \in Range(prog) : d.tag = "ExternalDecl" /\ d.name = n).ty]

Overlay(base, top) ==
    [n \in DOMAIN base \cup DOMAIN top |-> IF n \in DOMAIN top THEN top[n] ELSE base[n]]

FunEnv(prog, fundef) == Overlay(ExternalTypes(prog), ParamTypes(fundef.params))

FunDefsOf(prog) == {i \in DOMAIN prog : prog[i].tag = "FunDef"}

\* all bindings of an ANF expression, those of lambda bodies included
AllBindingsOfLets(lets) ==
    IF lets = <<>> THEN {}
    ELSE {Head(lets)}
         \cup (IF Head(lets).value.tag \in {"Map", "Reduce"}
               THEN AllBindings(Head(lets).value.body) ELSE {})
         \cup AllBindingsOfLets(Tail(lets))

AllBindings(expr) ==
    AllBindingsOfLets(expr.lets)
    \cup (IF expr.base.tag \in {"Map", "Reduce"} THEN AllBindings(expr.base.body) ELSE {})

(***************************************************************************)
(* C5 (normalize_base_expr, normalize_expr_with_state): in every           *)
(* normalized function each operand of Add, Mul, Call, ArraySet, Map and   *)
(* Reduce is an identifier, and an operand that is a temp _tmp_N is bound  *)
(* by a BindLet placed strictly earlier in the same binding list or in an  *)
(* enclosing one.                                                          *)
(***************************************************************************)
C5_TempsDefinedBeforeUse ==
    \A i \in DOMAIN norm_out :
        norm_out[i].tag = "FunDef" =>
            WellScopedExpr(norm_out[i].body.lets, norm_out[i].body.base, {})

\* let x = 1 in let y = 2 in a[0] := x + y * 3: the temp of y * 3 is bound
\* before the binding of the addition that names it
C5_Witness ==
    /\ NormOk
    /\ Len(norm_out[3].body.lets) = 6
    /\ norm_out[3].body.lets[4] = BindLet("_tmp_1", i32, Mul("y_11", "_tmp_0"))
    /\ norm_out[3].body.lets[6] = BindLet("_tmp_3", i32, Add("x_10", "_tmp_1"))
    /\ norm_out[3].body.base = ArraySet("a", "_tmp_2", "_tmp_3")

HasMismatch ==
    \E i \in FunDefsOf(program) :
        MismatchExpr(program[i].body.lets, program[i].body.base,
                     FunEnv(program, program[i]))

C7_MismatchIsError == (NormDone /\ HasMismatch) => NormErr

(***************************************************************************)
(* C8 (get_type, normalize_base_expr Var, normalize_fundef): a program in  *)
(* which a function body refers to a variable that is no parameter, no     *)
(* earlier let-bound name, no lambda parameter in scope and no external or *)
(* function name makes normalize_program return an error, wherever the     *)
(* reference stands.                                                       *)
(***************************************************************************)
HasUnresolved ==
    \E i \in FunDefsOf(program) :
        UnresolvedExpr(program[i].body.lets, program[i].body.base,
                       TopNames(program) \cup Range(ParamNames(program[i].params)))

C8_UnresolvedIsError == (NormDone /\ HasUnresolved) => NormErr

(***************************************************************************)
(* calyx_ast.rs: the structural IR.                                        *)
(***************************************************************************)
Port(cell, port) == [cell |-> cell, port |-> port]
\* Src::Port(port) and Src::Int { width, value }; NoSrc is Option::None
SrcPort(cell, port) == [k |-> "Port", port |-> Port(cell, port)]
SrcInt(width, value) == [k |-> "Int", width |-> width, value |-> value]
NoSrc == [k |-> "None"]
Wire(dest, src) == [dest |-> dest, src |-> src]

CombMemD1(data_width, len, address_width) ==
    [k |-> "CombMemD1", data_width |-> data_width, len |-> len,
     address_width |-> address_width]
StdReg(width) == [k |-> "StdReg", width |-> width]
StdAdd(width) == [k |-> "StdAdd", width |-> width]
StdMul(width) == [k |-> "StdMul", width |-> width]
\* used by convert.rs, not declared in this revision of calyx_ast.rs
StdLt(width) == [k |-> "StdLt", width |-> width]
FunInstance(name) == [k |-> "FunInstance", name |-> name]

Cell(name, is_external, is_ref, circuit) ==
    [name |-> name, is_external |-> is_external, is_ref |-> is_ref,
     circuit |-> circuit]
Group(name, done, wires) == [name |-> name, done |-> done, wires |-> wires]

Control_Seq(controls) == [k |-> "Seq", body |-> controls]
Control_Par(controls) == [k |-> "Par", body |-> controls]
Control_GroupName(name) == [k |-> "GroupName", name |-> name]
Control_While(condition, with, body) ==
    [k |-> "While", condition |-> condition, with |-> with, body |-> body]

Control_empty == Control_Seq(<<>>)
is_empty(control) == control.k = "Seq" /\ control.body = <<>>

Component_new(name, params, result) ==
    [name |-> name, params |-> params, result |-> result, cells |-> <<>>,
     wires |-> [static_wires |-> <<>>, groups |-> <<>>], control |-> <<>>]

push_control(comp, control) ==
    IF is_empty(control) THEN comp
    ELSE [comp EXCEPT !.control = Append(@, control)]

Port_port(p, port) == Port(p.cell, port)

(***************************************************************************)
(* convert.rs: Converter.  A Converter whose ok is FALSE stands for the    *)
(* Err (or, with panic, the todo!() and index panics) that ends convert;   *)
(* error is the message of an Err that a property tells from the others.   *)
(* Option<String> is a string, None being the empty string, which is no    *)
(* identifier.                                                             *)
(***************************************************************************)
ADDRESS_WIDTH == 32
FUN_OUT_NAME == "_out"
NoName == ""

Converter_init ==
    [ok |-> TRUE, panic |-> FALSE,
     program |-> [main |-> Component_new("main", <<>>, <<>>), components |-> <<>>],
     fresh_idx |-> 0, current_func |-> NoName,
     env |-> EmptyMap, type_env |-> EmptyMap, fun_type_env |-> EmptyMap,
     error |-> ""]

CFailed == [Converter_init EXCEPT !.ok = FALSE]
CPanic == [Converter_init EXCEPT !.ok = FALSE, !.panic = TRUE]
\* what is left of a Converter after a failure
failure(cv) == IF cv.panic THEN CPanic ELSE [cv EXCEPT !.ok = FALSE]
\* convert.rs 114-117: the message of the error about the signature of main
MAIN_SIGNATURE == "Main function must have no parameters and no return type"
CErr == [cv |-> CFailed, out |-> Control_empty]
CTodo == [cv |-> CPanic, out |-> Control_empty]

\* format!("_tmp_{}", self.fresh_idx)
cell_format(idx) == "_tmp_" \o ToString(idx)
\* format!("_group_{}", self.fresh_idx)
group_format(idx) == "_group_" \o ToString(idx)

Converter_fresh_name(cv) ==
    [cv |-> [cv EXCEPT !.fresh_idx = cv.fresh_idx + 1],
     out |-> cell_format(cv.fresh_idx)]

\* a new_group that does not advance the counter
new_group_reused(cv) ==
    [cv |-> cv,
     out |-> Group(group_format(cv.fresh_idx), NoSrc, <<>>)]

new_group(cv) ==
    [cv |-> [cv EXCEPT !.fresh_idx = cv.fresh_idx + 1],
     out |-> Group(group_format(cv.fresh_idx), NoSrc, <<>>)]

find_src_by_var(cv, var) ==
    IF var \in DOMAIN cv.env THEN cv.env[var] ELSE NoSrc

\* the index of the component get_current_func returns: 0 is main, 0 - 1
\* is the Err
current_index(cv) ==
    IF cv.current_func = "main" THEN 0
    ELSE IF \E i \in DOMAIN cv.program.components :
                cv.program.components[i].name = cv.current_func
    THEN CHOOSE i \in DOMAIN cv.program.components :
            /\ cv.program.components[i].name = cv.current_func
            /\ \A j \in 1..(i - 1) :
                  cv.program.components[j].name # cv.current_func
    ELSE 0 - 1

get_current_func(cv) ==
    IF current_index(cv) = 0 THEN cv.program.main
    ELSE cv.program.components[current_index(cv)]

\* *self.get_current_func()? = comp
set_current_func(cv, comp) ==
    IF current_index(cv) = 0 THEN [cv EXCEPT !.program.main = comp]
    ELSE [cv EXCEPT !.program.components[current_index(cv)] = comp]

\* self.get_current_func()?.cells.push(cell)
push_cell(cv, cell) ==
    IF ~cv.ok THEN cv
    ELSE IF current_index(cv) < 0 THEN CFailed
    ELSE set_current_func(cv, [get_current_func(cv) EXCEPT
                                  !.cells = Append(@, cell)])

\* self.get_current_func()?.wires.groups.push(group)
push_group(cv, group) ==
    IF ~cv.ok THEN cv
    ELSE IF current_index(cv) < 0 THEN CFailed
    ELSE set_current_func(cv, [get_current_func(cv) EXCEPT
                                  !.wires.groups = Append(@, group)])

\* self.get_current_func()?.wires.static_wires.push(wire)
push_static_wire(cv, wire) ==
    IF ~cv.ok THEN cv
    ELSE IF current_index(cv) < 0 THEN CFailed
    ELSE set_current_func(cv, [get_current_func(cv) EXCEPT
                                  !.wires.static_wires = Append(@, wire)])

insert_env(cv, name, src) == [cv EXCEPT !.env = insert(@, name, src)]
insert_type_env(cv, name, ty) == [cv EXCEPT !.type_env = insert(@, name, ty)]

\* if let Some(dest) = dest { self.env.insert(dest, src) }
bind_dest(cv, dest, src) ==
    IF dest = NoName THEN cv ELSE insert_env(cv, dest, src)

\* Component::get_add_cell and Component::get_mult_cell are not part of this
\* revision of calyx_ast.rs.  Modelled from the specification: one cell per
\* component and (operator, width), created on first use, under a name of
\* its own that no counter produces.
shared_cell(cv, name, circuit) ==
    [cv |-> IF ~cv.ok \/ current_index(cv) < 0 THEN failure(cv)
            ELSE IF \E i \in DOMAIN get_current_func(cv).cells :
                       get_current_func(cv).cells[i].name = name
            THEN cv
            ELSE push_cell(cv, Cell(name, FALSE, FALSE, circuit)),
     out |-> Cell(name, FALSE, FALSE, circuit)]

get_add_cell(cv, width) ==
    shared_cell(cv, "add_w" \o ToString(width), StdAdd(width))

get_mult_cell(cv, width) ==
    shared_cell(cv, "mult_w" \o ToString(width), StdMul(width))

\* cell.in = src; cell.write_en = 1'd1; group[done] = cell.done
write_group(group, cell, src) ==
    [group EXCEPT
        !.wires = @ \o <<Wire(Port(cell, "in"), src),
                         Wire(Port(cell, "write_en"), SrcInt(1, 1))>>,
        !.done = SrcPort(cell, "done")]

RECURSIVE convert_expr(_, _, _)
RECURSIVE convert_lets(_, _, _)
RECURSIVE convert_base_expr(_, _, _)
RECURSIVE convert_map(_, _, _)
RECURSIVE convert_reduce(_, _, _)

\* Int, Bool and Var: the destination becomes another name of the source
convert_int(cv, e, dest) ==
    [cv |-> bind_dest(cv, dest, SrcInt(32, e.n)), out |-> Control_empty]

convert_bool(cv, e, dest) ==
    [cv |-> bind_dest(cv, dest, SrcInt(1, IF e.b THEN 1 ELSE 0)),
     out |-> Control_empty]

convert_var(cv, e, dest) ==
    IF find_src_by_var(cv, e.name) = NoSrc THEN CErr
    ELSE [cv |-> bind_dest(cv, dest, find_src_by_var(cv, e.name)),
          out |-> Control_empty]

\* Add: a fresh std_add(32) whose operands are wired statically
convert_add(cv, e, dest) ==
    IF NoSrc \in {find_src_by_var(cv, e.left), find_src_by_var(cv, e.right)}
    THEN CErr
    ELSE IF dest = NoName THEN [cv |-> cv, out |-> Control_empty]
    ELSE The({
         [cv |-> insert_env(
                   push_static_wire(
                     push_static_wire(
                       push_cell(n.cv, Cell(n.out, FALSE, FALSE, StdAdd(32))),
                       Wire(Port(n.out, "left"), find_src_by_var(cv, e.left))),
                     Wire(Port(n.out, "right"), find_src_by_var(cv, e.right))),
                   dest, SrcPort(n.out, "out")),
          out |-> Control_empty]
         : n \in {Converter_fresh_name(cv)} })

\* Mul: the shared multiplier and a register that carries the name of the
\* destination variable
mul_group(group, mult, dest, var1, var2) ==
    [group EXCEPT
        !.wires = <<Wire(Port(mult, "left"), var1),
                    Wire(Port(mult, "right"), var2),
                    Wire(Port(mult, "go"), SrcInt(1, 1)),
                    Wire(Port(dest, "in"), SrcPort(mult, "out")),
                    Wire(Port(dest, "write_en"), SrcPort(mult, "done"))>>,
        !.done = SrcPort(dest, "done")]

\* a Mul whose register is written at once, not when the multiplier is done
convert_mul_eager(cv, e, dest) ==
    IF NoSrc \in {find_src_by_var(cv, e.left), find_src_by_var(cv, e.right)}
    THEN CErr
    ELSE IF dest = NoName THEN [cv |-> cv, out |-> Control_empty]
    ELSE The({ The({
         [cv |-> push_group(group.cv,
                    [mul_group(group.out, mult_cell.out.name, dest,
                               find_src_by_var(cv, e.left),
                               find_src_by_var(cv, e.right))
                       EXCEPT !.wires[5] = Wire(Port(dest, "write_en"),
                                                SrcInt(1, 1))]),
          out |-> Control_GroupName(group.out.name)]
         : group \in {new_group(
                        push_cell(
                          insert_env(mult_cell.cv, dest, SrcPort(dest, "out")),
                          Cell(dest, FALSE, FALSE, StdReg(32))))} })
         : mult_cell \in {get_mult_cell(cv, 32)} })

convert_mul(cv, e, dest) ==
    IF NoSrc \in {find_src_by_var(cv, e.left), find_src_by_var(cv, e.right)}
    THEN CErr
    ELSE IF dest = NoName THEN [cv |-> cv, out |-> Control_empty]
    ELSE The({ The({
         [cv |-> push_group(group.cv,
                            mul_group(group.out, mult_cell.out.name, dest,
                                      find_src_by_var(cv, e.left),
                                      find_src_by_var(cv, e.right))),
          out |-> Control_GroupName(group.out.name)]
         : group \in {new_group(
                        push_cell(
                          insert_env(mult_cell.cv, dest, SrcPort(dest, "out")),
                          Cell(dest, FALSE, FALSE, StdReg(32))))} })
         : mult_cell \in {get_mult_cell(cv, 32)} })

\* Call: one instance cell and one group for each call site
RECURSIVE call_wires(_, _, _)
call_wires(fun, params, args) ==
    IF params = <<>> THEN <<>>
    ELSE <<Wire(Port(fun, Head(params).name), Head(args))>>
         \o call_wires(fun, Tail(params), Tail(args))

is_contain_array(sig) ==
    \/ \E i \in DOMAIN sig.params : sig.params[i].ty.k = "Array"
    \/ sig.result_ty.k = "Array"

\* a Call whose instance is named after the callee, one for all its calls
convert_call_shared(cv, e, dest) ==
    IF \E i \in DOMAIN e.args : find_src_by_var(cv, e.args[i]) = NoSrc THEN CErr
    ELSE IF e.name \notin DOMAIN cv.fun_type_env THEN CErr
    ELSE IF is_contain_array(cv.fun_type_env[e.name]) THEN CTodo
    ELSE IF Len(e.args) < Len(cv.fun_type_env[e.name].params) THEN CTodo
    ELSE The({
         [cv |-> push_group(
                   bind_dest(group.cv, dest, SrcPort(e.name, FUN_OUT_NAME)),
                   [group.out EXCEPT
                      !.wires = call_wires(e.name, cv.fun_type_env[e.name].params,
                                           [i \in DOMAIN e.args |->
                                               find_src_by_var(cv, e.args[i])])
                                \o <<Wire(Port(e.name, "go"), SrcInt(1, 1))>>,
                      !.done = SrcPort(e.name, "done")]),
          out |-> Control_GroupName(group.out.name)]
         : group \in {new_group(
                         IF \E i \in DOMAIN get_current_func(cv).cells :
                               get_current_func(cv).cells[i].name = e.name
                         THEN cv
                         ELSE push_cell(cv, Cell(e.name, FALSE, FALSE,
                                                 FunInstance(e.name))))} })

convert_call(cv, e, dest) ==
    IF \E i \in DOMAIN e.args : find_src_by_var(cv, e.args[i]) = NoSrc THEN CErr
    ELSE IF e.name \notin DOMAIN cv.fun_type_env THEN CErr
    ELSE IF is_contain_array(cv.fun_type_env[e.name]) THEN CTodo
    ELSE IF Len(e.args) < Len(cv.fun_type_env[e.name].params) THEN CTodo
    ELSE The({ The({
         [cv |-> push_group(
                   bind_dest(group.cv, dest, SrcPort(fun.out, FUN_OUT_NAME)),
                   [group.out EXCEPT
                      !.wires = call_wires(fun.out, cv.fun_type_env[e.name].params,
                                           [i \in DOMAIN e.args |->
                                               find_src_by_var(cv, e.args[i])])
                                \o <<Wire(Port(fun.out, "go"), SrcInt(1, 1))>>,
                      !.done = SrcPort(fun.out, "done")]),
          out |-> Control_GroupName(group.out.name)]
         : group \in {new_group(push_cell(fun.cv,
                          Cell(fun.out, FALSE, FALSE, FunInstance(e.name))))} })
         : fun \in {Converter_fresh_name(cv)} })

\* an ArraySet whose destination becomes the read port of the array
convert_array_set_read(cv, e, dest) ==
    IF find_src_by_var(cv, e.name).k # "Port" THEN CErr
    ELSE IF NoSrc \in {find_src_by_var(cv, e.index), find_src_by_var(cv, e.value)}
    THEN CErr
    ELSE The({ The({
         [cv |-> bind_dest(
                   push_group(group.cv,
                      [group.out EXCEPT
                         !.wires = <<Wire(Port_port(array, "addr0"),
                                          find_src_by_var(cv, e.index)),
                                     Wire(Port_port(array, "write_data"),
                                          find_src_by_var(cv, e.value)),
                                     Wire(Port_port(array, "write_en"),
                                          SrcInt(1, 1))>>,
                         !.done = SrcPort(array.cell, "done")]),
                   dest, find_src_by_var(cv, e.name)),
          out |-> Control_GroupName(group.out.name)]
         : group \in {new_group(cv)} })
         : array \in {find_src_by_var(cv, e.name).port} })

\* ArraySet: one group, made whether or not a destination is asked for
convert_array_set(cv, e, dest) ==
    IF find_src_by_var(cv, e.name).k # "Port" THEN CErr
    ELSE IF NoSrc \in {find_src_by_var(cv, e.index), find_src_by_var(cv, e.value)}
    THEN CErr
    ELSE The({ The({
         [cv |-> bind_dest(
                   push_group(group.cv,
                      [group.out EXCEPT
                         !.wires = <<Wire(Port_port(array, "addr0"),
                                          find_src_by_var(cv, e.index)),
                                     Wire(Port_port(array, "write_data"),
                                          find_src_by_var(cv, e.value)),
                                     Wire(Port_port(array, "write_en"),
                                          SrcInt(1, 1))>>,
                         !.done = SrcPort(array.cell, "done")]),
                   dest, find_src_by_var(cv, e.value)),
          out |-> Control_GroupName(group.out.name)]
         : group \in {new_group(cv)} })
         : array \in {find_src_by_var(cv, e.name).port} })

\* a guard that is a group with a done signal
cond_lt_group_done(group, cond_lt, count_reg, size) ==
    [group EXCEPT
        !.wires = <<Wire(Port(cond_lt, "left"), SrcPort(count_reg, "out")),
                    Wire(Port(cond_lt, "right"), SrcInt(ADDRESS_WIDTH, size))>>,
        !.done = SrcPort(count_reg, "done")]

\* cond.left = count.out; cond.right = size: a combinational group
cond_lt_group(group, cond_lt, count_reg, size) ==
    [group EXCEPT
        !.wires = <<Wire(Port(cond_lt, "left"), SrcPort(count_reg, "out")),
                    Wire(Port(cond_lt, "right"), SrcInt(ADDRESS_WIDTH, size))>>]

\* add.left = count.out; add.right = 1; count.in = add.out; count.write_en = 1
inc_count_group(group, add_cell, count_reg) ==
    [group EXCEPT
        !.wires = <<Wire(Port(add_cell, "left"), SrcPort(count_reg, "out")),
                    Wire(Port(add_cell, "right"), SrcInt(ADDRESS_WIDTH, 1)),
                    Wire(Port(count_reg, "in"), SrcPort(add_cell, "out")),
                    Wire(Port(count_reg, "write_en"), SrcInt(1, 1))>>,
        !.done = SrcPort(count_reg, "done")]

\* for arg in &args { self.type_env.insert(arg.clone(), Type::I(width)) }
RECURSIVE insert_types(_, _, _)
insert_types(cv, names, ty) ==
    IF names = <<>> THEN cv
    ELSE insert_types(insert_type_env(cv, Head(names), ty), Tail(names), ty)

\* Map: one register for each lambda parameter, bound to the parameter
RECURSIVE map_arg_regs(_, _, _)
map_arg_regs(cv, args, width) ==
    IF args = <<>> THEN [cv |-> cv, out |-> <<>>]
    ELSE The({ The({
         [cv |-> rest.cv, out |-> <<arg_reg.out>> \o rest.out]
         : rest \in {map_arg_regs(
                       insert_env(
                         push_cell(arg_reg.cv,
                                   Cell(arg_reg.out, FALSE, FALSE, StdReg(width))),
                         Head(args), SrcPort(arg_reg.out, "out")),
                       Tail(args), width)} })
         : arg_reg \in {Converter_fresh_name(cv)} })

\* Map: vars[i].addr0 = count.out; arg_reg.in = vars[i]; arg_reg.write_en = 1
RECURSIVE map_init_arg_groups(_, _, _, _)
map_init_arg_groups(cv, array_ports, arg_regs, count_reg) ==
    IF arg_regs = <<>> THEN [cv |-> cv, out |-> <<>>]
    ELSE The({ The({
         [cv |-> rest.cv, out |-> <<group.out.name>> \o rest.out]
         : rest \in {map_init_arg_groups(
                       push_group(group.cv,
                          write_group(
                             [group.out EXCEPT !.wires =
                                <<Wire(Port_port(Head(array_ports), "addr0"),
                                       SrcPort(count_reg, "out"))>>],
                             Head(arg_regs),
                             [k |-> "Port", port |-> Head(array_ports)])),
                       Tail(array_ports), Tail(arg_regs), count_reg)} })
         : group \in {new_group(cv)} })

\* new_vec.addr0 = count.out; new_vec.write_data = result; new_vec.write_en = 1
map_result_group(group, new_vec, count_reg, result) ==
    [group EXCEPT
        !.wires = <<Wire(Port(new_vec, "addr0"), SrcPort(count_reg, "out")),
                    Wire(Port(new_vec, "write_data"), result),
                    Wire(Port(new_vec, "write_en"), SrcInt(1, 1))>>,
        !.done = SrcPort(new_vec, "done")]

group_names(names) == [i \in DOMAIN names |-> Control_GroupName(names[i])]

\* the closure of the Map case
map_closure(cv, e, dest, width, size, array_ports) ==
    The({ The({ The({ The({ The({ The({ The({ The({ The({ The({ The({ The({
    IF ~body.cv.ok THEN [cv |-> failure(body.cv), out |-> Control_empty]
    ELSE IF result_var.out \notin DOMAIN body.cv.env THEN CErr
    ELSE [cv |-> push_group(inc.cv,
                            inc_count_group(inc.out, add_cell.out.name,
                                            count_reg.out)),
          out |-> Control_Seq(<<
             Control_GroupName(init_count.out.name),
             Control_While(Port(cond_lt.out, "out"), cond_group.out.name,
                <<Control_Seq(group_names(init_args.out))>>
                \o (IF is_empty(body.out) THEN <<>> ELSE <<body.out>>)
                \o <<Control_GroupName(result_group.out.name),
                     Control_GroupName(inc.out.name)>>)>>)]
    : inc \in {new_group(
                 push_group(result_group.cv,
                    map_result_group(result_group.out, new_vec.out, count_reg.out,
                                     find_src_by_var(body.cv, result_var.out))))} })
    : result_group \in {new_group(body.cv)} })
    : body \in {convert_expr(result_var.cv, e.body, result_var.out)} })
    : result_var \in {Converter_fresh_name(init_args.cv)} })
    : init_args \in {map_init_arg_groups(
                       push_group(cond_group.cv,
                          cond_lt_group(cond_group.out, cond_lt.out,
                                        count_reg.out, size)),
                       array_ports, arg_regs.out, count_reg.out)} })
    : cond_group \in {new_group(
                        push_group(init_count.cv,
                           write_group(init_count.out, count_reg.out,
                                       SrcInt(ADDRESS_WIDTH, 0))))} })
    : init_count \in {new_group(
                        bind_dest(
                          push_cell(cond_lt.cv,
                             Cell(cond_lt.out, FALSE, FALSE, StdLt(ADDRESS_WIDTH))),
                          dest, SrcPort(new_vec.out, "read_data")))} })
    : cond_lt \in {Converter_fresh_name(arg_regs.cv)} })
    : arg_regs \in {map_arg_regs(
                      push_cell(count_reg.cv,
                         Cell(count_reg.out, FALSE, FALSE, StdReg(ADDRESS_WIDTH))),
                      e.params, width)} })
    : count_reg \in {Converter_fresh_name(
                       push_cell(new_vec.cv,
                          Cell(new_vec.out, FALSE, FALSE,
                               CombMemD1(width, size, ADDRESS_WIDTH))))} })
    : new_vec \in {Converter_fresh_name(add_cell.cv)} })
    : add_cell \in {get_add_cell(cv, 32)} })

convert_map(cv, e, dest) ==
    IF e.arrays = <<>> THEN CTodo
    ELSE IF Head(e.arrays) \notin DOMAIN cv.type_env THEN CErr
    ELSE IF cv.type_env[Head(e.arrays)].k # "Array" THEN CErr
    ELSE IF cv.type_env[Head(e.arrays)].elem.k # "I" THEN CErr
    ELSE IF \E i \in DOMAIN e.arrays :
               find_src_by_var(cv, e.arrays[i]).k # "Port" THEN CErr
    ELSE IF Len(e.params) > Len(e.arrays) THEN CTodo
    ELSE map_closure(
            insert_types(cv, e.params, TI(cv.type_env[Head(e.arrays)].elem.w)),
            e, dest,
            cv.type_env[Head(e.arrays)].elem.w, cv.type_env[Head(e.arrays)].n,
            [i \in DOMAIN e.arrays |-> find_src_by_var(cv, e.arrays[i]).port])

\* array.addr0 = count.out; arg.in = array.read_data; arg.write_en = 1
read_array_group(group, array, count_reg, arg_reg) ==
    write_group(
       [group EXCEPT !.wires =
           <<Wire(Port(array, "addr0"), SrcPort(count_reg, "out"))>>],
       arg_reg, SrcPort(array, "read_data"))

\* the cells of a Reduce are pushed after its groups
reduce_finish(cv, groups, cells) ==
    push_cell(push_cell(push_cell(push_cell(
       push_group(push_group(push_group(cv, groups[1]), groups[2]), groups[3]),
       cells[1]), cells[2]), cells[3]), cells[4])

\* the closure of the Reduce case
reduce_closure(cv, e, dest, width, size, array, init_value) ==
    The({ The({ The({ The({ The({ The({ The({ The({ The({ The({ The({ The({ The({
    IF ~body.cv.ok THEN [cv |-> failure(body.cv), out |-> Control_empty]
    ELSE IF result_var.out \notin DOMAIN body.cv.env THEN CErr
    ELSE [cv |-> reduce_finish(inc.cv,
                    <<read_array_group(read_group.out, array.cell, count_reg.out,
                                       arg_reg.out),
                      write_group(result_group.out, acm_reg.out,
                                  find_src_by_var(body.cv, result_var.out)),
                      inc_count_group(inc.out, add_cell.out.name, count_reg.out)>>,
                    <<Cell(acm_reg.out, FALSE, FALSE, StdReg(width)),
                      Cell(count_reg.out, FALSE, FALSE, StdReg(ADDRESS_WIDTH)),
                      Cell(arg_reg.out, FALSE, FALSE, StdReg(width)),
                      Cell(cond_lt.out, FALSE, FALSE, StdLt(ADDRESS_WIDTH))>>),
          out |-> Control_Seq(<<
             Control_Par(<<Control_GroupName(init_count.out.name),
                           Control_GroupName(init_acm.out.name)>>),
             Control_While(Port(cond_lt.out, "out"), cond_group.out.name,
                <<Control_GroupName(read_group.out.name)>>
                \o (IF is_empty(body.out) THEN <<>> ELSE <<body.out>>)
                \o <<Control_GroupName(result_group.out.name),
                     Control_GroupName(inc.out.name)>>)>>)]
    : inc \in {new_group(result_group.cv)} })
    : result_group \in {new_group(body.cv)} })
    : body \in {convert_expr(
                  insert_type_env(result_var.cv, result_var.out, TI(width)),
                  e.body, result_var.out)} })
    : result_var \in {Converter_fresh_name(read_group.cv)} })
    : read_group \in {new_group(
                        push_group(cond_group.cv,
                           cond_lt_group(cond_group.out, cond_lt.out,
                                         count_reg.out, size)))} })
    : cond_group \in {new_group(
                        push_group(
                          push_group(init_acm.cv,
                             write_group(init_count.out, count_reg.out,
                                         SrcInt(ADDRESS_WIDTH, 0))),
                          write_group(init_acm.out, acm_reg.out, init_value)))} })
    : init_acm \in {new_group(init_count.cv)} })
    : init_count \in {new_group(cond_lt.cv)} })
    : cond_lt \in {Converter_fresh_name(
                     insert_env(arg_reg.cv, e.param2,
                                SrcPort(arg_reg.out, "out")))} })
    : arg_reg \in {Converter_fresh_name(count_reg.cv)} })
    : count_reg \in {Converter_fresh_name(
                       bind_dest(
                         insert_env(acm_reg.cv, e.param1,
                                    SrcPort(acm_reg.out, "out")),
                         dest, SrcPort(acm_reg.out, "out")))} })
    : acm_reg \in {Converter_fresh_name(add_cell.cv)} })
    : add_cell \in {get_add_cell(cv, width)} })

convert_reduce(cv, e, dest) ==
    IF e.array \notin DOMAIN cv.type_env THEN CErr
    ELSE IF cv.type_env[e.array].k # "Array" THEN CErr
    ELSE IF cv.type_env[e.array].elem.k # "I" THEN CErr
    ELSE IF find_src_by_var(cv, e.array).k # "Port" THEN CErr
    ELSE IF find_src_by_var(cv, e.init_value) = NoSrc THEN CErr
    ELSE reduce_closure(
            insert_type_env(
               insert_type_env(cv, e.param1, TI(cv.type_env[e.array].elem.w)),
               e.param2, TI(cv.type_env[e.array].elem.w)),
            e, dest, cv.type_env[e.array].elem.w, cv.type_env[e.array].n,
            find_src_by_var(cv, e.array).port,
            find_src_by_var(cv, e.init_value))

convert_base_expr(cv, base_expr, dest) ==
    IF ~cv.ok THEN [cv |-> failure(cv), out |-> Control_empty]
    ELSE CASE base_expr.tag = "Int" -> convert_int(cv, base_expr, dest)
           [] base_expr.tag = "Bool" -> convert_bool(cv, base_expr, dest)
           [] base_expr.tag = "Var" -> convert_var(cv, base_expr, dest)
           [] base_expr.tag = "Add" -> convert_add(cv, base_expr, dest)
           [] base_expr.tag = "Mul" -> convert_mul(cv, base_expr, dest)
           [] base_expr.tag = "NewArray" -> CTodo
           [] base_expr.tag = "Map" -> convert_map(cv, base_expr, dest)
           [] base_expr.tag = "Reduce" -> convert_reduce(cv, base_expr, dest)
           [] base_expr.tag = "Call" -> convert_call(cv, base_expr, dest)
           [] base_expr.tag = "ArraySet" -> convert_array_set(cv, base_expr, dest)

convert_let(cv, let_binding) ==
    IF let_binding.tag = "BindLet"
    THEN convert_base_expr(
            insert_type_env(cv, let_binding.name, let_binding.ty),
            let_binding.value, let_binding.name)
    ELSE convert_base_expr(cv, let_binding.value, NoName)

\* for let_binding in lets { convert_let; push unless empty }
convert_lets(cv, lets, seq_vec) ==
    IF ~cv.ok THEN [cv |-> failure(cv), out |-> <<>>]
    ELSE IF lets = <<>> THEN [cv |-> cv, out |-> seq_vec]
    ELSE The({
         convert_lets(control.cv, Tail(lets),
                      IF is_empty(control.out) THEN seq_vec
                      ELSE Append(seq_vec, control.out))
         : control \in {convert_let(cv, Head(lets))} })

convert_expr(cv, expr, out) ==
    The({ The({
    IF ~control.cv.ok THEN [cv |-> failure(control.cv), out |-> Control_empty]
    ELSE [cv |-> control.cv,
          out |-> Control_Seq(IF is_empty(control.out) THEN seq_vec.out
                              ELSE Append(seq_vec.out, control.out))]
    : control \in {convert_base_expr(seq_vec.cv, expr.base, out)} })
    : seq_vec \in {convert_lets(cv, expr.lets, <<>>)} })

\* convert_fundef, not main: the parameters become ports and ref memories
RECURSIVE fundef_params(_, _, _, _)
fundef_params(cv, params, component_params, cells) ==
    IF params = <<>>
    THEN [cv |-> cv, component_params |-> component_params, cells |-> cells]
    ELSE IF Head(params).ty.k = "I"
    THEN fundef_params(
            insert_env(insert_type_env(cv, Head(params).name, Head(params).ty),
                       Head(params).name, SrcPort(Head(params).name, "")),
            Tail(params),
            Append(component_params,
                   [name |-> Head(params).name, width |-> Head(params).ty.w]),
            cells)
    ELSE IF Head(params).ty.elem.k = "I"
    THEN fundef_params(
            insert_env(insert_type_env(cv, Head(params).name, Head(params).ty),
                       Head(params).name, SrcPort(Head(params).name, "read_data")),
            Tail(params), component_params,
            Append(cells,
                   Cell(Head(params).name, FALSE, TRUE,
                        CombMemD1(Head(params).ty.elem.w, Head(params).ty.n,
                                  ADDRESS_WIDTH))))
    ELSE [cv |-> CFailed, component_params |-> <<>>, cells |-> <<>>]

\* convert_fundef, not main: the return type and the new component
fundef_component(cv, fundef) ==
    The({
    IF ~ps.cv.ok THEN CFailed
    ELSE IF fundef.return_type = NoType
    THEN [ps.cv EXCEPT !.program.components =
             Append(@, [Component_new(fundef.name, ps.component_params, <<>>)
                           EXCEPT !.cells = ps.cells])]
    ELSE IF fundef.return_type.k = "I"
    THEN [insert_env(insert_type_env(ps.cv, FUN_OUT_NAME, fundef.return_type),
                     FUN_OUT_NAME, SrcPort(FUN_OUT_NAME, "out"))
             EXCEPT !.program.components =
                Append(@, [Component_new(fundef.name, ps.component_params,
                              <<[name |-> FUN_OUT_NAME,
                                 width |-> fundef.return_type.w]>>)
                              EXCEPT !.cells = ps.cells])]
    ELSE IF fundef.return_type.elem.k = "I"
    THEN [insert_env(ps.cv, FUN_OUT_NAME, SrcPort(FUN_OUT_NAME, "read_data"))
             EXCEPT !.program.components =
                Append(@, [Component_new(fundef.name, ps.component_params, <<>>)
                              EXCEPT !.cells =
                                 Append(ps.cells,
                                    Cell(FUN_OUT_NAME, FALSE, FALSE,
                                         CombMemD1(fundef.return_type.elem.w,
                                                   fundef.return_type.n,
                                                   ADDRESS_WIDTH)))])]
    ELSE CFailed
    : ps \in {fundef_params(cv, fundef.params, <<>>, <<>>)} })

\* convert_fundef, scalar return type: the result goes through a fresh
\* register into the output port
fundef_output(cv, width, result) ==
    The({ The({
       push_static_wire(
          push_group(
             set_current_func(group.cv,
                [get_current_func(group.cv) EXCEPT
                    !.control = Append(@, Control_GroupName(group.out.name))]),
             write_group(group.out, output_cell.out, result)),
          Wire(Port(FUN_OUT_NAME, ""), SrcPort(output_cell.out, "out")))
       : group \in {new_group(
                      push_cell(output_cell.cv,
                         Cell(output_cell.out, FALSE, FALSE, StdReg(width))))} })
       : output_cell \in {Converter_fresh_name(cv)} })

convert_fundef(cv, fundef) ==
    IF fundef.name = "main"
       /\ ~(fundef.params = <<>> /\ fundef.return_type = NoType)
    THEN [CFailed EXCEPT !.error = MAIN_SIGNATURE]
    ELSE The({ The({ The({
         IF ~control.cv.ok THEN failure(control.cv)
         ELSE IF fundef.return_type.k # "I"
         THEN set_current_func(control.cv,
                 push_control(get_current_func(control.cv), control.out))
         ELSE IF find_src_by_var(control.cv, out.out) = NoSrc THEN CFailed
         ELSE fundef_output(
                 set_current_func(control.cv,
                    push_control(get_current_func(control.cv), control.out)),
                 fundef.return_type.w,
                 find_src_by_var(control.cv, out.out))
         : control \in {convert_expr(out.cv, fundef.body, out.out)} })
         : out \in {IF fundef.return_type.k = "I"
                    THEN Converter_fresh_name(component)
                    ELSE [cv |-> component, out |-> NoName]} })
         : component \in {
              IF fundef.name = "main"
              THEN [cv EXCEPT
                      !.fun_type_env =
                          insert(@, fundef.name,
                                 [params |-> fundef.params,
                                  result_ty |-> fundef.return_type]),
                      !.current_func = fundef.name]
              ELSE fundef_component(
                      [cv EXCEPT
                         !.fun_type_env =
                             insert(@, fundef.name,
                                    [params |-> fundef.params,
                                     result_ty |-> fundef.return_type]),
                         !.current_func = fundef.name],
                      fundef)} })

\* an external declaration whose cell is not marked external
convert_external_decl_owned(cv, decl) ==
    IF decl.ty.k # "Array" THEN [cv EXCEPT !.ok = FALSE]
    ELSE IF decl.ty.elem.k # "I" THEN [cv EXCEPT !.ok = FALSE]
    ELSE insert_type_env(
            insert_env(
               [cv EXCEPT !.program.main.cells =
                   Append(@, Cell(decl.name, FALSE, FALSE,
                                  CombMemD1(decl.ty.elem.w, decl.ty.n,
                                            ADDRESS_WIDTH)))],
               decl.name, SrcPort(decl.name, "read_data")),
            decl.name, decl.ty)

\* the Err is returned before anything is pushed or inserted
convert_external_decl(cv, decl) ==
    IF decl.ty.k # "Array" THEN [cv EXCEPT !.ok = FALSE]
    ELSE IF decl.ty.elem.k # "I" THEN [cv EXCEPT !.ok = FALSE]
    ELSE insert_type_env(
            insert_env(
               [cv EXCEPT !.program.main.cells =
                   Append(@, Cell(decl.name, TRUE, FALSE,
                                  CombMemD1(decl.ty.elem.w, decl.ty.n,
                                            ADDRESS_WIDTH)))],
               decl.name, SrcPort(decl.name, "read_data")),
            decl.name, decl.ty)

\* for decl in ast { convert_external_decl or convert_fundef, ? }
RECURSIVE convert(_, _)
convert(cv, ast) ==
    IF ~cv.ok THEN failure(cv)
    ELSE IF ast = <<>> THEN cv
    ELSE IF Head(ast).tag = "ExternalDecl"
    THEN convert(convert_external_decl(cv, Head(ast)), Tail(ast))
    ELSE convert(convert_fundef(cv, Head(ast)), Tail(ast))

(***************************************************************************)
(* Execution of the control program of main.  The repository holds no      *)
(* interpreter of the structural IR; this one follows the specification:   *)
(* a group is a control step gated by its done signal, Seq runs its steps  *)
(* one after another, Par completes when every branch has completed, and a *)
(* While tests its condition port under its combinational guard group.     *)
(* Cells are found by name.  Values stay far below 2^32, the width of the  *)
(* registers of the programs that are run.                                 *)
(***************************************************************************)
MaxIter == 6     \* the iterations followed in one activation of a loop

cell_index(comp, name) ==
    CHOOSE i \in DOMAIN comp.cells :
        /\ comp.cells[i].name = name
        /\ \A j \in 1..(i - 1) : comp.cells[j].name # name

has_cell(comp, name) == \E i \in DOMAIN comp.cells : comp.cells[i].name = name

circuit_of(comp, name) == comp.cells[cell_index(comp, name)].circuit

\* the source that drives a port; a port that nothing drives reads 0
driver(wires, port) ==
    IF \E i \in DOMAIN wires : wires[i].dest = port
    THEN wires[CHOOSE i \in DOMAIN wires :
                  /\ wires[i].dest = port
                  /\ \A j \in 1..(i - 1) : wires[j].dest # port].src
    ELSE SrcInt(1, 0)

group_of(comp, name) ==
    comp.wires.groups[CHOOSE i \in DOMAIN comp.wires.groups :
                          comp.wires.groups[i].name = name]

\* the wires that are active while a group runs
active_wires(comp, name) == group_of(comp, name).wires \o comp.wires.static_wires

in_range(circuit, addr) == addr \in 0..(circuit.len - 1)

\* the value on a source while the given wires are active
RECURSIVE port_value(_, _, _, _)
port_value(comp, wires, m, src) ==
    IF src.k = "Int" THEN src.value
    ELSE IF ~has_cell(comp, src.port.cell) THEN 0
    ELSE The({
         CASE circuit.k = "StdReg" ->
                 IF src.port.port = "out" THEN m.regs[src.port.cell] ELSE 1
           [] circuit.k = "StdAdd" ->
                 port_value(comp, wires, m,
                            driver(wires, Port(src.port.cell, "left")))
                 + port_value(comp, wires, m,
                              driver(wires, Port(src.port.cell, "right")))
           [] circuit.k = "StdMul" ->
                 IF src.port.port = "out"
                 THEN port_value(comp, wires, m,
                                 driver(wires, Port(src.port.cell, "left")))
                      * port_value(comp, wires, m,
                                   driver(wires, Port(src.port.cell, "right")))
                 ELSE 1
           [] circuit.k = "StdLt" ->
                 IF port_value(comp, wires, m,
                               driver(wires, Port(src.port.cell, "left")))
                    < port_value(comp, wires, m,
                                 driver(wires, Port(src.port.cell, "right")))
                 THEN 1 ELSE 0
           [] circuit.k = "CombMemD1" ->
                 IF src.port.port = "read_data"
                 THEN The({ IF in_range(circuit, addr)
                            THEN m.mems[src.port.cell][addr + 1] ELSE 0
                            : addr \in {port_value(comp, wires, m,
                                   driver(wires, Port(src.port.cell, "addr0")))} })
                 ELSE 1
           [] OTHER -> 0
         : circuit \in {circuit_of(comp, src.port.cell)} })

\* the cells of one kind whose write_en the group drives high
written(comp, name, m, kind) ==
    { w.dest.cell : w \in
        { w \in Range(group_of(comp, name).wires) :
            /\ w.dest.port = "write_en"
            /\ has_cell(comp, w.dest.cell)
            /\ circuit_of(comp, w.dest.cell).k = kind
            /\ port_value(comp, active_wires(comp, name), m, w.src) # 0 } }

\* the address a group puts on a memory
address(comp, name, m, mem) ==
    port_value(comp, active_wires(comp, name), m,
               driver(active_wires(comp, name), Port(mem, "addr0")))

\* a group that addresses a memory outside its length
address_fault(comp, name, m) ==
    \E w \in Range(group_of(comp, name).wires) :
        /\ w.dest.port = "addr0"
        /\ has_cell(comp, w.dest.cell)
        /\ circuit_of(comp, w.dest.cell).k = "CombMemD1"
        /\ ~in_range(circuit_of(comp, w.dest.cell),
                     address(comp, name, m, w.dest.cell))

\* one run of a group: every register and memory whose write_en is high
\* takes the value on its input, all read in the state before
exec_group(comp, name, m) ==
    [m EXCEPT
       !.regs = [c \in DOMAIN m.regs |->
                   IF c \in written(comp, name, m, "StdReg")
                   THEN port_value(comp, active_wires(comp, name), m,
                           driver(active_wires(comp, name), Port(c, "in")))
                   ELSE m.regs[c]],
       !.mems = [c \in DOMAIN m.mems |->
                   IF c \in written(comp, name, m, "CombMemD1")
                   THEN [m.mems[c] EXCEPT ![address(comp, name, m, c) + 1] =
                           port_value(comp, active_wires(comp, name), m,
                              driver(active_wires(comp, name),
                                     Port(c, "write_data")))]
                   ELSE m.mems[c]],
       !.reg_writes = @ \cup { <<name, c>> : c \in written(comp, name, m, "StdReg") },
       !.mem_writes = @ \cup { <<c, address(comp, name, m, c)>> :
                                 c \in written(comp, name, m, "CombMemD1") }]

RECURSIVE is_done(_)
is_done(c) ==
    /\ c.k \in {"Seq", "Par"}
    /\ \A i \in DOMAIN c.body : is_done(c.body[i])

\* what is left of a Seq whose first step has become x
seq_rest(x, tail) ==
    IF is_done(x) THEN (IF tail = <<>> THEN Control_empty ELSE Control_Seq(tail))
    ELSE IF tail = <<>> THEN x
    ELSE Control_Seq(<<x>> \o tail)

\* the value of the condition port of a While under its guard group
while_condition(comp, c, m) ==
    port_value(comp, active_wires(comp, c.with), m,
               SrcPort(c.condition.cell, c.condition.port))

\* the steps the control can take next: a group to run, or a While to test
RECURSIVE Steps(_, _, _)
Steps(comp, c, m) ==
    CASE c.k = "GroupName" ->
            {[kind |-> "group", name |-> c.name, rest |-> Control_empty]}
      [] c.k = "Seq" ->
            IF c.body = <<>> THEN {}
            ELSE IF is_done(Head(c.body))
            THEN Steps(comp, Control_Seq(Tail(c.body)), m)
            ELSE {[s EXCEPT !.rest = seq_rest(s.rest, Tail(c.body))] :
                     s \in Steps(comp, Head(c.body), m)}
      [] c.k = "Par" ->
            UNION {{[s EXCEPT !.rest = Control_Par([c.body EXCEPT ![i] = s.rest])] :
                       s \in Steps(comp, c.body[i], m)} : i \in DOMAIN c.body}
      [] c.k = "While" ->
            IF while_condition(comp, c, m) # 0
            THEN {[kind |-> "enter", name |-> c.with,
                   rest |-> Control_Seq(c.body \o <<c>>)]}
            ELSE {[kind |-> "exit", name |-> c.with, rest |-> Control_empty]}

(***************************************************************************)
(* Programs that are generated and run: A-normal forms of main, over       *)
(* external arrays of the enumerated length and of the length of the       *)
(* examples.  The Map programs are what normalize_top_level makes of their *)
(* source; the Reduce programs are written in the five-field A-normal form *)
(* convert.rs takes.                                                       *)
(***************************************************************************)
ExampleLen == 4      \* the arrays of the examples: [1, 2, 3, 4]

Arr(n) == TArray(i32, n)
Main(lets, base) == FunDef("main", <<>>, NoType, Expr_(lets, base))

\* let s = reduce(a, 0, (acc, x) => acc + x)
SumReduce(n) ==
    <<ExternalDecl("a", Arr(n)),
      Main(<<BindLet("_tmp_0", i32, IntLit(0)),
             BindLet("s_0", i32,
                Reduce("a", "_tmp_0", "acc_1", "x_2",
                       Expr_(<<>>, Add("acc_1", "x_2"))))>>,
           Var("s_0"))>>

\* let s = reduce(a, 1, (acc, x) => acc * x)
ProdReduce(n) ==
    <<ExternalDecl("a", Arr(n)),
      Main(<<BindLet("_tmp_0", i32, IntLit(1)),
             BindLet("s_0", i32,
                Reduce("a", "_tmp_0", "acc_1", "x_2",
                       Expr_(<<>>, Mul("acc_1", "x_2"))))>>,
           Var("s_0"))>>

\* let y = 1 in let s = reduce(a, y, (acc, x) => acc + y * 2)
ScaledReduce(n) ==
    <<ExternalDecl("a", Arr(n)),
      Main(<<BindLet("y_0", i32, IntLit(1)),
             BindLet("s_1", i32,
                Reduce("a", "y_0", "acc_2", "x_3",
                       Expr_(<<BindLet("_tmp_0", i32, IntLit(2)),
                               BindLet("_tmp_1", i32, Mul("y_0", "_tmp_0"))>>,
                             Add("acc_2", "_tmp_1"))))>>,
           Var("s_1"))>>

\* let r = map(a, b, (x, y) => x + y)
MapAdd(n) ==
    <<ExternalDecl("a", Arr(n)), ExternalDecl("b", Arr(n)),
      normalize_top_level(
         Main(<<BindLet("r_2", Arr(n),
                   Map(<<Var("a"), Var("b")>>, <<"x_0", "y_1">>,
                       Expr_(<<>>, Add(Var("x_0"), Var("y_1")))))>>,
              Var("r_2"))).out>>

\* let y = v in let r = map(a, (x) => x + y * 2)
MapScaled(n, v) ==
    <<ExternalDecl("a", Arr(n)),
      normalize_top_level(
         Main(<<BindLet("y_0", i32, IntLit(v)),
                BindLet("r_2", Arr(n),
                   Map(<<Var("a")>>, <<"x_1">>,
                       Expr_(<<>>, Add(Var("x_1"),
                                       Mul(Var("y_0"), IntLit(2))))))>>,
              Var("r_2"))).out>>

\* let r = map(a, (x) => reduce(b, x, (acc, y) => acc + y))
MapOfReduce(n) ==
    <<ExternalDecl("a", Arr(n)), ExternalDecl("b", Arr(n)),
      Main(<<BindLet("r_3", Arr(n),
                Map(<<"a">>, <<"x_0">>,
                    Expr_(<<>>,
                       Reduce("b", "x_0", "acc_1", "y_2",
                              Expr_(<<>>, Add("acc_1", "y_2"))))))>>,
           Var("r_3"))>>

\* let r = map(a, (x) => x + x) in let s = reduce(r, 0, (acc, y) => acc + y)
MapThenReduce(n) ==
    <<ExternalDecl("a", Arr(n)),
      Main(<<BindLet("r_1", Arr(n),
                Map(<<"a">>, <<"x_0">>, Expr_(<<>>, Add("x_0", "x_0")))),
             BindLet("_tmp_0", i32, IntLit(0)),
             BindLet("s_4", i32,
                Reduce("r_1", "_tmp_0", "acc_2", "y_3",
                       Expr_(<<>>, Add("acc_2", "y_3"))))>>,
           Var("s_4"))>>

\* main.rs 39-52: let x = 1 in let y = 2 in out[0] := x + y * 3
BuiltIn ==
    <<ExternalDecl("out", Arr(1)),
      normalize_top_level(
         Main(<<BindLet("x_0", i32, IntLit(1)), BindLet("y_1", i32, IntLit(2))>>,
              ArraySet("out", IntLit(0),
                       Add(Var("x_0"), Mul(Var("y_1"), IntLit(3)))))).out>>

\* let x = 1 in out[0] := x + x
StoreSum ==
    <<ExternalDecl("out", Arr(1)),
      normalize_top_level(
         Main(<<BindLet("x_0", i32, IntLit(1))>>,
              ArraySet("out", IntLit(0), Add(Var("x_0"), Var("x_0"))))).out>>

\* let x = 1 in let y = x + x in out[0] := y + y
TwoSums ==
    <<ExternalDecl("out", Arr(1)),
      normalize_top_level(
         Main(<<BindLet("x_0", i32, IntLit(1)),
                BindLet("y_1", i32, Add(Var("x_0"), Var("x_0")))>>,
              ArraySet("out", IntLit(0), Add(Var("y_1"), Var("y_1"))))).out>>

\* let y = 1 in let s = reduce(a, (y * 2) * 3, (acc, x) => acc + x)
ReduceFromProduct ==
    <<ExternalDecl("a", Arr(MaxLen)),
      Main(<<BindLet("y_0", i32, IntLit(1)),
             BindLet("_tmp_0", i32, IntLit(2)),
             BindLet("_tmp_1", i32, Mul("y_0", "_tmp_0")),
             BindLet("_tmp_2", i32, IntLit(3)),
             BindLet("_tmp_3", i32, Mul("_tmp_1", "_tmp_2")),
             BindLet("s_1", i32,
                Reduce("a", "_tmp_3", "acc_2", "x_3",
                       Expr_(<<>>, Add("acc_2", "x_3"))))>>,
           Var("s_1"))>>

\* let c = 0 in ... (eight times) let _tmp = 5 in
\* let s = reduce(a, 0, (acc, x) => acc + x) in out[0] := _tmp
KeptAcrossReduce ==
    <<ExternalDecl("a", Arr(MaxLen)), ExternalDecl("out", Arr(1)),
      Main([i \in 1..8 |-> BindLet("c_" \o ToString(i - 1), i32, IntLit(0))]
           \o <<BindLet("_tmp_8", i32, IntLit(5)),
                BindLet("_tmp_0", i32, IntLit(0)),
                BindLet("s_9", i32,
                   Reduce("a", "_tmp_0", "acc_10", "x_11",
                          Expr_(<<>>, Add("acc_10", "x_11")))),
                BindLet("_tmp_1", i32, IntLit(0))>>,
           ArraySet("out", "_tmp_1", "_tmp_8"))>>

\* fn t(i: i32) -> i32 = a[0] := i, and a main that stores 1 + 1
StoreInFunction ==
    <<ExternalDecl("a", Arr(MaxLen)), ExternalDecl("out", Arr(1)),
      normalize_top_level(
         FunDef("t_0", <<Param("i_1", i32)>>, i32,
                Expr_(<<>>, ArraySet("a", IntLit(0), Var("i_1"))))).out,
      normalize_top_level(
         Main(<<BindLet("x_2", i32, IntLit(1))>>,
              ArraySet("out", IntLit(0), Add(Var("x_2"), Var("x_2"))))).out>>

\* let r = map(a, b, (x, y) => x + y) with a longer than b
MapUneven ==
    <<ExternalDecl("a", Arr(ExampleLen)), ExternalDecl("b", Arr(MaxLen)),
      normalize_top_level(
         Main(<<BindLet("r_2", Arr(ExampleLen),
                   Map(<<Var("a"), Var("b")>>, <<"x_0", "y_1">>,
                       Expr_(<<>>, Add(Var("x_0"), Var("y_1")))))>>,
              Var("r_2"))).out>>

\* let r = map(a, b, (x) => x + x): two arrays, one parameter
MapOneParameter ==
    <<ExternalDecl("a", Arr(MaxLen)), ExternalDecl("b", Arr(MaxLen)),
      normalize_top_level(
         Main(<<BindLet("r_1", Arr(MaxLen),
                   Map(<<Var("a"), Var("b")>>, <<"x_0">>,
                       Expr_(<<>>, Add(Var("x_0"), Var("x_0")))))>>,
              Var("r_1"))).out>>

\* a variable that nothing binds
Unbound == <<ExternalDecl("a", Arr(MaxLen)), Main(<<>>, Var("q"))>>

RunLens == {MaxLen, ExampleLen}

RunPrograms ==
    UNION {{SumReduce(n), ProdReduce(n), ScaledReduce(n), MapAdd(n),
            MapScaled(n, 0), MapScaled(n, 1), MapScaled(n, 3),
            MapOfReduce(n), MapThenReduce(n)} : n \in RunLens}
    \cup {BuiltIn, StoreSum, TwoSums, ReduceFromProduct, KeptAcrossReduce,
          StoreInFunction, MapUneven, MapOneParameter, Unbound}

Externals(prog) == {prog[i] : i \in {j \in DOMAIN prog : prog[j].tag = "ExternalDecl"}}

\* every array up to the enumerated length, the ramp 1..n beyond it
InputArrays(n) ==
    IF n <= MaxLen THEN [1..n -> 0..MaxVal] ELSE {[i \in 1..n |-> i]}

Inputs(prog) ==
    {f \in [{d.name : d \in Externals(prog)} ->
               UNION {InputArrays(d.ty.n) : d \in Externals(prog)}] :
        \A d \in Externals(prog) : f[d.name] \in InputArrays(d.ty.n)}

(***************************************************************************)
(* The driver: main.rs 18-19 generates the program, then the control of    *)
(* main is run on the input.  A program in which two cells share a name is *)
(* either refused before it runs or run with the two cells being one.      *)
(***************************************************************************)
RECURSIVE Whiles(_)
Whiles(c) ==
    IF c.k = "GroupName" THEN {}
    ELSE (IF c.k = "While" THEN {c} ELSE {})
         \cup UNION {Whiles(c.body[i]) : i \in DOMAIN c.body}

MainOf(cv) == cv.program.main

CellNames(comp, kind) ==
    {comp.cells[i].name : i \in {j \in DOMAIN comp.cells :
                                   circuit_of(comp, comp.cells[j].name).k = kind}}

duplicate_cells(comp) ==
    \E i, j \in DOMAIN comp.cells : i # j /\ comp.cells[i].name = comp.cells[j].name

\* two cells of one name and different circuits
conflicting_cells(comp) ==
    \E i, j \in DOMAIN comp.cells :
        /\ comp.cells[i].name = comp.cells[j].name
        /\ comp.cells[i].circuit # comp.cells[j].circuit

\* registers hold 0 at reset, external memories the input, others 0
load(comp, in) ==
    [regs |-> [c \in CellNames(comp, "StdReg") |-> 0],
     mems |-> [c \in CellNames(comp, "CombMemD1") |->
                 IF c \in DOMAIN in THEN in[c]
                 ELSE [i \in 1..circuit_of(comp, c).len |-> 0]],
     todo |-> Control_Seq(comp.control),
     iters |-> [w \in {c.with : c \in Whiles(Control_Seq(comp.control))} |-> 0],
     tests |-> {},
     reg_writes |-> {},
     mem_writes |-> {}]

\* the register a guard group compares with the length
guard_counter(comp, with) == group_of(comp, with).wires[1].src.port.cell

\* a test of a guard: the iterations completed so far in this activation
\* of the loop, the counter, and whether the loop is left
test(comp, m, s) ==
    [with |-> s.name, iters |-> m.iters[s.name],
     count |-> m.regs[guard_counter(comp, s.name)],
     exit |-> s.kind = "exit"]

InitRun ==
    /\ program \in RunPrograms
    /\ input \in Inputs(program)
    /\ phase = "convert"
    /\ ctx = AlphaContext_default
    /\ alpha_out = <<>>
    /\ norm_out = <<>>
    /\ calyx = Converter_init
    /\ machine = EmptyMap
    /\ alpha_again = <<>>

ConvertOk ==
    /\ phase = "convert"
    /\ \E r \in {convert(Converter_init, program)} : r.ok /\ calyx' = r
    /\ phase' = "converted"
    /\ UNCHANGED <<program, ctx, alpha_out, alpha_again, norm_out, input,
                   machine>>

ConvertErr ==
    /\ phase = "convert"
    /\ \E r \in {convert(Converter_init, program)} : ~r.ok /\ calyx' = r
    /\ phase' = "convert_err"
    /\ UNCHANGED <<program, ctx, alpha_out, alpha_again, norm_out, input,
                   machine>>

Reject ==
    /\ phase = "converted"
    /\ duplicate_cells(MainOf(calyx))
    /\ phase' = "rejected"
    /\ UNCHANGED <<program, ctx, alpha_out, alpha_again, norm_out, calyx,
                   input, machine>>

Load ==
    /\ phase = "converted"
    /\ ~conflicting_cells(MainOf(calyx))
    /\ machine' = load(MainOf(calyx), input)
    /\ phase' = "run"
    /\ UNCHANGED <<program, ctx, alpha_out, alpha_again, norm_out, calyx,
                   input>>

RunGroup ==
    /\ phase = "run"
    /\ \E s \in Steps(MainOf(calyx), machine.todo, machine) :
          /\ s.kind = "group"
          /\ ~address_fault(MainOf(calyx), s.name, machine)
          /\ machine' = [exec_group(MainOf(calyx), s.name, machine)
                            EXCEPT !.todo = s.rest]
    /\ UNCHANGED <<program, phase, ctx, alpha_out, alpha_again, norm_out,
                   calyx, input>>

RunFault ==
    /\ phase = "run"
    /\ \E s \in Steps(MainOf(calyx), machine.todo, machine) :
          /\ s.kind = "group"
          /\ address_fault(MainOf(calyx), s.name, machine)
          /\ machine' = [machine EXCEPT !.mem_writes =
                @ \cup {<<c, address(MainOf(calyx), s.name, machine, c)>> :
                           c \in written(MainOf(calyx), s.name, machine,
                                         "CombMemD1")}]
    /\ phase' = "fault"
    /\ UNCHANGED <<program, ctx, alpha_out, alpha_again, norm_out, calyx,
                   input>>

WhileEnter ==
    /\ phase = "run"
    /\ \E s \in Steps(MainOf(calyx), machine.todo, machine) :
          /\ s.kind = "enter"
          /\ machine.iters[s.name] < MaxIter
          /\ machine' = [machine EXCEPT
                !.todo = s.rest,
                !.iters[s.name] = @ + 1,
                !.tests = @ \cup {test(MainOf(calyx), machine, s)}]
    /\ UNCHANGED <<program, phase, ctx, alpha_out, alpha_again, norm_out,
                   calyx, input>>

WhileExit ==
    /\ phase = "run"
    /\ \E s \in Steps(MainOf(calyx), machine.todo, machine) :
          /\ s.kind = "exit"
          /\ machine' = [machine EXCEPT
                !.todo = s.rest,
                !.iters[s.name] = 0,
                !.tests = @ \cup {test(MainOf(calyx), machine, s)}]
    /\ UNCHANGED <<program, phase, ctx, alpha_out, alpha_again, norm_out,
                   calyx, input>>

Halt ==
    /\ phase = "run"
    /\ is_done(machine.todo)
    /\ phase' = "halted"
    /\ UNCHANGED <<program, ctx, alpha_out, alpha_again, norm_out, calyx,
                   input, machine>>

NextRun ==
    \/ ConvertOk \/ ConvertErr \/ Reject \/ Load
    \/ RunGroup \/ RunFault \/ WhileEnter \/ WhileExit \/ Halt

SpecRun == InitRun /\ [][NextRun]_vars

(***************************************************************************)
(* Helpers of the execution properties: an interpreter of A-normal forms,  *)
(* and the loops of a generated control program, found by their shape.     *)
(***************************************************************************)
RECURSIVE EvalBase(_, _)
RECURSIVE EvalLets(_, _)
RECURSIVE Fold(_, _, _, _)

\* the environment with the parameters of a lambda bound to element i
RECURSIVE BindElems(_, _, _, _)
BindElems(env, params, arrays, i) ==
    IF params = <<>> THEN env
    ELSE BindElems(insert(env, Head(params), env[Head(arrays)][i]),
                   Tail(params), Tail(arrays), i)

EvalExpr(expr, env) == EvalBase(expr.base, EvalLets(expr.lets, env))

\* the fold of the body over array[i..], in index order
Fold(e, env, acc, i) ==
    IF i > Len(env[e.array]) THEN acc
    ELSE Fold(e, env,
              EvalExpr(e.body, insert(insert(env, e.param1, acc),
                                      e.param2, env[e.array][i])),
              i + 1)

EvalBase(e, env) ==
    CASE e.tag = "Int" -> e.n
      [] e.tag = "Bool" -> IF e.b THEN 1 ELSE 0
      [] e.tag = "Var" -> env[e.name]
      [] e.tag = "Add" -> env[e.left] + env[e.right]
      [] e.tag = "Mul" -> env[e.left] * env[e.right]
      [] e.tag = "Map" ->
            [i \in 1..Len(env[e.arrays[1]]) |->
                EvalExpr(e.body, BindElems(env, e.params, e.arrays, i))]
      [] e.tag = "Reduce" -> Fold(e, env, env[e.init_value], 1)
      [] e.tag = "ArraySet" -> env[e.value]

\* an ArraySet stores into its array, a BindLet binds its name
Effect(e, env) ==
    IF e.tag = "ArraySet"
    THEN insert(env, e.name, [env[e.name] EXCEPT ![env[e.index] + 1] = env[e.value]])
    ELSE env

EvalLets(lets, env) ==
    IF lets = <<>> THEN env
    ELSE EvalLets(Tail(lets),
            IF Head(lets).tag = "BindLet"
            THEN insert(Effect(Head(lets).value, env), Head(lets).name,
                        EvalBase(Head(lets).value, env))
            ELSE Effect(Head(lets).value, env))

MainBody == program[Len(program)].body

\* what the source program computes on the input
Oracle == Effect(MainBody.base, EvalLets(MainBody.lets, input))

TopLets(tag) ==
    {l \in Range(MainBody.lets) : l.tag = "BindLet" /\ l.value.tag = tag}

\* the names of the groups of a control
RECURSIVE GroupsIn(_)
GroupsIn(c) ==
    IF c.k = "GroupName" THEN {c.name}
    ELSE UNION {GroupsIn(c.body[i]) : i \in DOMAIN c.body}

\* the cells a group writes: those whose in or write_data port it drives
Writes(comp, name) ==
    {w.dest.cell : w \in {v \in Range(group_of(comp, name).wires) :
                             v.dest.port \in {"in", "write_data"}}}

\* a loop with the step before it: the counter and the length of its guard,
\* the group that initialises the counter, the last step of the body
Loop(comp, before, w) ==
    [with |-> w.with,
     counter |-> guard_counter(comp, w.with),
     size |-> group_of(comp, w.with).wires[2].src.value,
     init |-> IF before.k = "Par" THEN before.body[1].name ELSE before.name,
     acm |-> IF before.k = "Par"
             THEN group_of(comp, before.body[2].name).wires[1].dest.cell
             ELSE NoName,
     store |-> w.body[Len(w.body) - 1].name,
     inc |-> w.body[Len(w.body)].name,
     body |-> w.body]

RECURSIVE Loops(_, _)
Loops(comp, c) ==
    IF c.k = "GroupName" THEN {}
    ELSE {Loop(comp, c.body[i - 1], c.body[i]) :
             i \in {j \in DOMAIN c.body : j > 1 /\ c.body[j].k = "While"}}
         \cup UNION {Loops(comp, c.body[i]) : i \in DOMAIN c.body}

MainLoops == Loops(MainOf(calyx), Control_Seq(MainOf(calyx).control))

Generated == phase \in {"converted", "rejected", "run", "fault", "halted"}

\* the program was run to its end
Ran == phase = "halted"

\* the generated program is not refused for its cell names
Runnable == phase # "rejected"

(***************************************************************************)
(* Properties of the generated control programs.                           *)
(***************************************************************************)
NamesDistinct == Generated => ~duplicate_cells(MainOf(calyx))

\* a Reduce initialises its accumulator beside its counter, a Map does not
ReduceLoops == {r \in MainLoops : r.acm # NoName}
MapLoops == {r \in MainLoops : r.acm = NoName}

\* the destination of a Reduce is the out port of the accumulator of one of
\* the loops, and a finished run leaves the fold there
ReduceFolds(l) ==
    /\ l.name \in DOMAIN calyx.env
    /\ calyx.env[l.name] \in {SrcPort(r.acm, "out") : r \in ReduceLoops}
    /\ Ran => machine.regs[calyx.env[l.name].port.cell] = Oracle[l.name]

\* C2: executing the control generated for Reduce(array, init, acc, elem,
\* body) leaves fold(body, init, array[0..n-1]), taken in index order, in the
\* accumulator register (10 for acc + x over [1, 2, 3, 4] from 0), and the
\* destination variable is bound to the out port of that accumulator.
C2_ReduceFolds ==
    Generated => \A l \in TopLets("Reduce") : Runnable /\ ReduceFolds(l)

\* the same on the programs whose cell names are pairwise distinct
C2_FoldsWhenNamesDistinct ==
    (Generated /\ ~duplicate_cells(MainOf(calyx)))
        => \A l \in TopLets("Reduce") : Runnable /\ ReduceFolds(l)

\* the same on the runs that were not refused
C2_FoldsWhenRun ==
    Generated => \A l \in TopLets("Reduce") : ReduceFolds(l)

\* the sum of the example has been computed
C2_SumExample ==
    /\ Ran
    /\ program = SumReduce(ExampleLen)
    /\ machine.regs[calyx.env["s_0"].port.cell] = 10

\* the destination of a Map is the read port of the result memory of one of
\* the loops; only addresses 0..n-1 of it are written, a finished run has
\* written all of them with the values of the body, and the external
\* memories are as the source program leaves them
MapWrites(l) ==
    /\ l.name \in DOMAIN calyx.env
    /\ calyx.env[l.name] \in
          {SrcPort(c, "read_data") :
              c \in UNION {Writes(MainOf(calyx), r.store) : r \in MapLoops}}
    /\ phase \in {"run", "fault", "halted"} =>
          /\ {w[2] : w \in {v \in machine.mem_writes :
                               v[1] = calyx.env[l.name].port.cell}}
                \subseteq 0..(l.ty.n - 1)
          /\ \A d \in Externals(program) :
                machine.mems[d.name] \in {input[d.name], Oracle[d.name]}
    /\ Ran =>
          /\ machine.mems[calyx.env[l.name].port.cell] = Oracle[l.name]
          /\ {w[2] : w \in {v \in machine.mem_writes :
                               v[1] = calyx.env[l.name].port.cell}}
                = 0..(l.ty.n - 1)
          /\ \A d \in Externals(program) : machine.mems[d.name] = Oracle[d.name]

\* C3: executing the control generated for Map(arrays, params, body) writes
\* result[i] = body(arrays[0][i], ..., arrays[k-1][i]) for every i in 0..n-1
\* of the fresh result memory, writes no other result address and leaves the
\* input arrays unchanged (a[i] + b[i] for two arrays and body x + y).
C3_MapWritesPointwise ==
    Generated => \A l \in TopLets("Map") : Runnable /\ MapWrites(l)

\* the same on the programs whose cell names are pairwise distinct
C3_PointwiseWhenNamesDistinct ==
    (Generated /\ ~duplicate_cells(MainOf(calyx)))
        => \A l \in TopLets("Map") : Runnable /\ MapWrites(l)

\* the same on the runs that were not refused
C3_PointwiseWhenRun ==
    Generated => \A l \in TopLets("Map") : MapWrites(l)

\* the map of the example has been computed
C3_AddExample ==
    /\ Ran
    /\ program = MapAdd(ExampleLen)
    /\ machine.mems[calyx.env["r_2"].port.cell] = [i \in 1..ExampleLen |-> 2 * i]

\* the counter of a loop is set to 0 by the step before the loop, is
\* incremented by 1 by the last step of the body and is written by no other
\* group of the body
CounterPrivate(comp, r) ==
    /\ r.counter \in Writes(comp, r.init)
    /\ driver(group_of(comp, r.init).wires, Port(r.counter, "in"))
          = SrcInt(ADDRESS_WIDTH, 0)
    /\ port_value(comp, active_wires(comp, r.inc),
                  [regs |-> [c \in {r.counter} |-> 1]],
                  driver(active_wires(comp, r.inc), Port(r.counter, "in"))) = 2
    /\ \A g \in GroupsIn(Control_Seq(r.body)) \ {r.inc} :
          r.counter \notin Writes(comp, g)

\* at every test of a guard the counter equals the number of iterations
\* completed since the loop was reached, and the loop is left exactly when
\* that number is the length
GuardCounts(comp, t) ==
    /\ t.count = t.iters
    /\ t.exit <=> (t.iters = group_of(comp, t.with).wires[2].src.value)

\* C4: every while-loop synthesized for a Map or Reduce over n elements
\* terminates: its counter is 0 before the loop, is incremented by exactly 1
\* as the last step of every iteration and is written nowhere else in the
\* body, so the guard counter < n fails after exactly n iterations; nested
\* loops included, the inner counter being set again on each outer iteration.
C4_LoopsRunLengthTimes ==
    Generated =>
       /\ \A r \in MainLoops : CounterPrivate(MainOf(calyx), r)
       /\ phase \in {"run", "halted"} =>
             \A t \in machine.tests : GuardCounts(MainOf(calyx), t)

\* the same on the programs whose cell names are pairwise distinct
C4_RunLengthTimesWhenNamesDistinct ==
    (Generated /\ ~duplicate_cells(MainOf(calyx))) =>
       /\ \A r \in MainLoops : CounterPrivate(MainOf(calyx), r)
       /\ phase \in {"run", "halted"} =>
             \A t \in machine.tests : GuardCounts(MainOf(calyx), t)

\* an inner loop has been left more than once, each time after n iterations
C4_NestedExample ==
    /\ Ran
    /\ program = MapOfReduce(ExampleLen)
    /\ Cardinality(machine.tests) = 2 * (ExampleLen + 1)


(***************************************************************************)
(* Programs given to Converter::convert for the properties of the          *)
(* generated structure: A-normal forms with well-formed and ill-formed     *)
(* external declarations, functions that are called, and a main of every   *)
(* signature.                                                              *)
(***************************************************************************)
ConvExternalLists ==
    { <<ExternalDecl("a", Arr(MaxLen))>>,
      <<ExternalDecl("a", Arr(MaxLen)), ExternalDecl("b", TArray(bool, ExampleLen))>>,
      <<ExternalDecl("s", i32)>>,
      <<ExternalDecl("a", Arr(MaxLen)), ExternalDecl("m", TArray(Arr(MaxLen), MaxLen))>>,
      <<>> }

\* fn g(p: i32, q: i32) -> i32 = p + q
FunG ==
    FunDef("g_0", <<Param("p_1", i32), Param("q_2", i32)>>, i32,
           Expr_(<<>>, Add("p_1", "q_2")))
\* fn h(v: i32[MaxLen]) -> i32 = 1
FunH == FunDef("h_3", <<Param("v_4", Arr(MaxLen))>>, i32, Expr_(<<>>, IntLit(1)))
\* fn n() -> i32[MaxLen] = new_array<i32>[MaxLen]
FunN == FunDef("n_5", <<>>, Arr(MaxLen), Expr_(<<>>, NewArray(i32, MaxLen)))

ConvFunLists == { <<FunG>>, <<FunG, FunH>>, <<FunN, FunG>>, <<>> }

\* the operators as a value nothing is bound to
DeadValues ==
    { IntLit(2), BoolLit(TRUE), Var("x_0"), Add("x_0", "x_0"), Mul("x_0", "x_0"),
      Map(<<"a">>, <<"e_1">>, Expr_(<<>>, Add("e_1", "x_0"))),
      Reduce("a", "x_0", "acc_1", "e_2", Expr_(<<>>, Add("acc_1", "e_2"))),
      Call("g_0", <<"x_0", "x_0">>),
      ArraySet("a", "x_0", "x_0") }

ConvBodies ==
    { \* two calls to one callee, the second on the result of the first
      Expr_(<<BindLet("x_0", i32, IntLit(1)),
              BindLet("y_1", i32, Call("g_0", <<"x_0", "x_0">>)),
              BindLet("z_2", i32, Call("g_0", <<"y_1", "x_0">>))>>,
            ArraySet("a", "x_0", "z_2")),
      \* a store whose value is bound and stored again
      Expr_(<<BindLet("x_0", i32, IntLit(1)),
              BindLet("w_1", i32, ArraySet("a", "x_0", "x_0"))>>,
            ArraySet("a", "w_1", "w_1")),
      \* a callee that no function defines
      Expr_(<<BindLet("x_0", i32, IntLit(1)),
              BindLet("y_1", i32, Call("u_9", <<"x_0">>))>>, Var("y_1")),
      \* a callee with an array parameter
      Expr_(<<BindLet("y_1", i32, Call("h_3", <<"a">>))>>, Var("y_1")),
      \* fewer arguments than parameters
      Expr_(<<BindLet("x_0", i32, IntLit(1)),
              BindLet("y_1", i32, Call("g_0", <<"x_0">>))>>, Var("y_1")) }
    \cup { Expr_(<<BindLet("x_0", i32, IntLit(1)), NoBindLet(v)>>, IntLit(0))
              : v \in DeadValues }
    \cup { Expr_(<<BindLet("x_0", i32, IntLit(1))>>, v) : v \in DeadValues }

ConvMains == { FunDef("main", <<>>, NoType, b) : b \in ConvBodies }

\* a main with parameters, with a return type, with both
BadMains ==
    { FunDef("main", sig[1], sig[2], b) :
         sig \in ({<<>>, <<Param("x_0", i32)>>} \X {NoType, i32, Arr(MaxLen)})
                    \ {<< <<>>, NoType >>},
         b \in { Expr_(<<>>, IntLit(0)),
                 Expr_(<<BindLet("x_0", i32, IntLit(1))>>, Add("x_0", "x_0")) } }

ConvPrograms ==
    { es \o fs \o <<m>> : es \in ConvExternalLists, fs \in ConvFunLists,
                          m \in ConvMains \cup BadMains }
    \cup { <<m>> \o es \o fs : es \in ConvExternalLists, fs \in ConvFunLists,
                               m \in BadMains }
    \cup { fs \o es \o <<m>> : es \in ConvExternalLists, fs \in ConvFunLists,
                               m \in ConvMains }

(***************************************************************************)
(* The driver of the generator alone: main.rs 18-26.                       *)
(***************************************************************************)
InitConvert ==
    /\ program \in ConvPrograms
    /\ phase = "convert"
    /\ ctx = AlphaContext_default
    /\ alpha_out = <<>>
    /\ alpha_again = <<>>
    /\ norm_out = <<>>
    /\ calyx = Converter_init
    /\ input = EmptyMap
    /\ machine = EmptyMap

NextConvert == ConvertOk \/ ConvertErr

SpecConvert == InitConvert /\ [][NextConvert]_vars

\* convert has returned or panicked
Converted == phase \in {"converted", "convert_err"}

\* the Converter after the first k items of the program, and the items
\* that it reaches
After(k) == convert(Converter_init, SubSeq(program, 1, k))
Reached == {k \in DOMAIN program : After(k - 1).ok}

(***************************************************************************)
(* Properties of the generated structure.                                  *)
(***************************************************************************)
ConformingMain(item) == item.params = <<>> /\ item.return_type = NoType

BadMainAt ==
    {i \in DOMAIN program :
        /\ program[i].tag = "FunDef"
        /\ program[i].name = "main"
        /\ ~ConformingMain(program[i])}

\* C13: for every program whose main has a parameter or a return type,
\* whatever its body and the other items, Converter::convert returns an
\* error (an Err, so that no structure is printed); a main with no
\* parameters and no return type never brings about the error about the
\* signature of main.
C13_BadMainIsError ==
    Converted =>
       /\ BadMainAt # {} => (~calyx.ok /\ ~calyx.panic)
       /\ BadMainAt = {} => calyx.error # MAIN_SIGNATURE

\* no structure is generated for such a program, and the error about the
\* signature is returned whenever convert gets as far as main
C13_BadMainNeverOk ==
    Converted =>
       /\ BadMainAt # {} => ~calyx.ok
       /\ (BadMainAt \cap Reached) # {} =>
             (~calyx.panic /\ calyx.error = MAIN_SIGNATURE)
       /\ BadMainAt = {} => calyx.error # MAIN_SIGNATURE

\* a main with a parameter, after a well-formed external and a function
C13_Example ==
    /\ Converted
    /\ program[1] = ExternalDecl("a", Arr(MaxLen))
    /\ program[2] = FunG
    /\ Len(program) = 3
    /\ program[3].params # <<>>
    /\ calyx.error = MAIN_SIGNATURE

ScalarArray(ty) == ty.k = "Array" /\ ty.elem.k = "I"

\* the memory cell of an external declaration
ExternalCell(decl) ==
    Cell(decl.name, TRUE, FALSE,
         CombMemD1(decl.ty.elem.w, decl.ty.n, 32))

ExternalAdded(before, after, decl) ==
    /\ after.ok
    /\ after.program.main.cells
          = Append(before.program.main.cells, ExternalCell(decl))
    /\ after.program.components = before.program.components
    /\ after.env = insert(before.env, decl.name, SrcPort(decl.name, "read_data"))
    /\ after.type_env = insert(before.type_env, decl.name, decl.ty)

ExternalRefused(before, after) ==
    /\ ~after.ok
    /\ ~after.panic
    /\ after.program = before.program

\* C14: each ExternalDecl(name, Array(I(w), n)) that convert reaches adds
\* exactly one cell to main, named name, external, a CombMemD1 of data
\* width w, length n and address width 32, and binds name to the read_data
\* port of that cell and to its declared type; a declaration of any other
\* type makes convert return an error and adds no cell.
C14_ExternalAddsOneMemory ==
    \A k \in Reached :
        program[k].tag = "ExternalDecl" =>
            IF ScalarArray(program[k].ty)
            THEN ExternalAdded(After(k - 1), After(k), program[k])
            ELSE /\ ExternalRefused(After(k - 1), After(k))
                 /\ Converted => ~calyx.ok /\ ~calyx.panic

\* two externals of different widths and lengths have become the two
\* memories of main
C14_Witness ==
    /\ phase = "converted"
    /\ program[1] = ExternalDecl("a", Arr(MaxLen))
    /\ program[2] = ExternalDecl("b", TArray(bool, ExampleLen))
    /\ SubSeq(calyx.program.main.cells, 1, 2)
          = <<Cell("a", TRUE, FALSE, CombMemD1(32, MaxLen, 32)),
              Cell("b", TRUE, FALSE, CombMemD1(1, ExampleLen, 32))>>
    /\ calyx.env["b"] = SrcPort("b", "read_data")

\* the values of the top-level lets of the body of main and its final
\* expression, of one operator
MainValues(tag) ==
    {v \in {MainBody.lets[i].value : i \in DOMAIN MainBody.lets} \cup {MainBody.base} :
        v.tag = tag}

\* the component convert is working on
Current(cv) == get_current_func(cv)

\* g drives addr0, write_data and write_en of the array of e from the index,
\* the value and constant 1, and is done when the array is
DrivesArraySet(cv, e, g) ==
    /\ g.wires = <<Wire(Port(find_src_by_var(cv, e.name).port.cell, "addr0"),
                        find_src_by_var(cv, e.index)),
                   Wire(Port(find_src_by_var(cv, e.name).port.cell, "write_data"),
                        find_src_by_var(cv, e.value)),
                   Wire(Port(find_src_by_var(cv, e.name).port.cell, "write_en"),
                        SrcInt(1, 1))>>
    /\ g.done = SrcPort(find_src_by_var(cv, e.name).port.cell, "done")

\* r is the lowering of the ArraySet e from the Converter cv
ArraySetLowered(cv, e, dest, r) ==
    /\ r.cv.ok
    /\ Len(Current(r.cv).wires.groups) = Len(Current(cv).wires.groups) + 1
    /\ SubSeq(Current(r.cv).wires.groups, 1, Len(Current(cv).wires.groups))
          = Current(cv).wires.groups
    /\ DrivesArraySet(cv, e,
          Current(r.cv).wires.groups[Len(Current(r.cv).wires.groups)])
    /\ r.out = Control_GroupName(
                  Current(r.cv).wires.groups[Len(Current(r.cv).wires.groups)].name)
    /\ Current(r.cv).cells = Current(cv).cells
    /\ Current(r.cv).wires.static_wires = Current(cv).wires.static_wires
    /\ r.cv.env = IF dest = NoName THEN cv.env
                  ELSE insert(cv.env, dest, find_src_by_var(cv, e.value))

\* C15: lowering ArraySet(array, index, value) creates exactly one group,
\* whose wires drive array.addr0 from the index source, array.write_data
\* from the value source and array.write_en from constant 1 and whose done
\* source is array.done, and returns a control step that names exactly that
\* group; a destination, when one is requested, is bound to the source of
\* the written value, not to the read port of the array.
C15_ArraySetOneGroup ==
    phase = "converted" =>
        \A e \in MainValues("ArraySet") : \A dest \in {NoName, "d_9"} :
            ArraySetLowered(calyx, e, dest, convert_base_expr(calyx, e, dest))

\* let x = 1 in let w = (a[x] := x) in a[w] := w has been lowered: two
\* groups, the second storing the value of the first at that value
C15_Witness ==
    /\ phase = "converted"
    /\ MainValues("ArraySet")
          = {ArraySet("a", "x_0", "x_0"), ArraySet("a", "w_1", "w_1")}
    /\ calyx.env["w_1"] = SrcInt(32, 1)
    /\ Len(calyx.program.main.wires.groups) = 2
    /\ calyx.program.main.wires.groups[2].wires[1]
          = Wire(Port("a", "addr0"), SrcInt(32, 1))
    /\ calyx.program.main.control
          = <<Control_Seq(<<Control_GroupName(calyx.program.main.wires.groups[1].name),
                            Control_GroupName(calyx.program.main.wires.groups[2].name)>>)>>


\* the values that are lowered with no destination: those of the NoBindLets
\* of main and its final expression (main returns nothing)
UnboundValues ==
    {MainBody.lets[i].value :
        i \in {j \in DOMAIN MainBody.lets : MainBody.lets[j].tag = "NoBindLet"}}
    \cup {MainBody.base}

\* r leaves the structure and the environment of cv as they are and asks
\* for no control
NoEffect(cv, r) ==
    /\ r.cv.ok
    /\ r.out = Control_empty
    /\ Current(r.cv).cells = Current(cv).cells
    /\ Current(r.cv).wires.groups = Current(cv).wires.groups
    /\ Current(r.cv).wires.static_wires = Current(cv).wires.static_wires
    /\ r.cv.env = cv.env

\* C16: lowering any operator with no destination (the value of a NoBindLet,
\* the body of a function that returns no scalar) returns the empty control
\* and adds no cell, no group, no static wire and no binding of the
\* environment.
C16_NoDestinationNoEffect ==
    phase = "converted" =>
        \A v \in UnboundValues :
            NoEffect(calyx, convert_base_expr(calyx, v, NoName))

\* the same for the literals, the variables, the additions and the
\* multiplications
C16_NoEffectOfScalarOperators ==
    phase = "converted" =>
        \A v \in UnboundValues :
            v.tag \in {"Int", "Bool", "Var", "Add", "Mul"} =>
                NoEffect(calyx, convert_base_expr(calyx, v, NoName))

\* a call whose result nothing names has left an instance and a group in
\* main
C16_DeadCallExample ==
    /\ phase = "converted"
    /\ MainBody.lets = <<BindLet("x_0", i32, IntLit(1)),
                         NoBindLet(Call("g_0", <<"x_0", "x_0">>))>>
    /\ \E i \in DOMAIN calyx.program.main.cells :
          calyx.program.main.cells[i].circuit = FunInstance("g_0")
    /\ Len(calyx.program.main.wires.groups) = 1


\* the calls of main whose result is named: the positions of their lets
CallSites ==
    {i \in DOMAIN MainBody.lets :
        /\ MainBody.lets[i].tag = "BindLet"
        /\ MainBody.lets[i].value.tag = "Call"}

\* the names of the instance cells of a component
InstanceNames(comp) ==
    {comp.cells[i].name :
        i \in {j \in DOMAIN comp.cells : comp.cells[j].circuit.k = "FunInstance"}}

\* g drives the port of the instance fun named after each declared parameter
\* of the callee of e from the argument at the same position, in declared
\* order, then go from constant 1, and is done when the instance is
DrivesCall(cv, e, fun, g) ==
    /\ g.wires = [i \in 1..(Len(cv.fun_type_env[e.name].params) + 1) |->
                    IF i <= Len(cv.fun_type_env[e.name].params)
                    THEN Wire(Port(fun, cv.fun_type_env[e.name].params[i].name),
                              find_src_by_var(cv, e.args[i]))
                    ELSE Wire(Port(fun, "go"), SrcInt(1, 1))]
    /\ g.done = SrcPort(fun, "done")

\* r is the lowering of the Call e into dest from the Converter cv
CallLowered(cv, e, dest, r) ==
    /\ r.cv.ok
    /\ Len(Current(r.cv).cells) = Len(Current(cv).cells) + 1
    /\ SubSeq(Current(r.cv).cells, 1, Len(Current(cv).cells)) = Current(cv).cells
    /\ Current(r.cv).cells[Len(Current(r.cv).cells)].circuit = FunInstance(e.name)
    /\ Current(r.cv).cells[Len(Current(r.cv).cells)].name
          \notin InstanceNames(Current(cv))
    /\ Len(Current(r.cv).wires.groups) = Len(Current(cv).wires.groups) + 1
    /\ SubSeq(Current(r.cv).wires.groups, 1, Len(Current(cv).wires.groups))
          = Current(cv).wires.groups
    /\ DrivesCall(cv, e, Current(r.cv).cells[Len(Current(r.cv).cells)].name,
                  Current(r.cv).wires.groups[Len(Current(r.cv).wires.groups)])
    /\ r.out = Control_GroupName(
                  Current(r.cv).wires.groups[Len(Current(r.cv).wires.groups)].name)
    /\ r.cv.env = insert(cv.env, dest,
                     SrcPort(Current(r.cv).cells[Len(Current(r.cv).cells)].name,
                             FUN_OUT_NAME))

\* the call at let i of main has an instance of its callee in main, a group
\* that drives it, and its name bound to the _out port of that instance
CallSiteInMain(i) ==
    \E c \in DOMAIN calyx.program.main.cells :
        /\ calyx.program.main.cells[c].circuit
              = FunInstance(MainBody.lets[i].value.name)
        /\ calyx.env[MainBody.lets[i].name]
              = SrcPort(calyx.program.main.cells[c].name, FUN_OUT_NAME)
        /\ \E g \in DOMAIN calyx.program.main.wires.groups :
              DrivesCall(calyx, MainBody.lets[i].value,
                         calyx.program.main.cells[c].name,
                         calyx.program.main.wires.groups[g])

\* the names main calls that no function converted before it defines
UnknownCallees ==
    {v.name : v \in {w \in MainValues("Call") :
                        w.name \notin DOMAIN After(Len(program) - 1).fun_type_env}}

C17_UnknownCalleeExample ==
    /\ phase = "convert_err"
    /\ UnknownCallees = {"u_9"}
    /\ After(Len(program) - 1).ok
    /\ ~calyx.panic


(***************************************************************************)
(* Order of the bindings of one operation (normalize_base_expr).           *)
(***************************************************************************)
\* the state in which the value of let k of the body of fundef is
\* normalized; k = Len(lets) + 1 is the final expression
StateAt(fundef, k) ==
    normalize_lets(SubSeq(fundef.body.lets, 1, k - 1),
                   insert_params(NormalizeState_new, fundef.params)).st

\* the values of the lets of the body of fundef and its final expression,
\* each with its position
Sites(fundef) ==
    {<<fundef.body.lets[k].value, k>> : k \in DOMAIN fundef.body.lets}
    \cup {<<fundef.body.base, Len(fundef.body.lets) + 1>>}

BindingNames(bindings) == {bindings[i].name : i \in DOMAIN bindings}

PositionOf(bindings, name) == CHOOSE i \in DOMAIN bindings : bindings[i].name = name

\* the bindings that come from one operand: those hoisted out of it (r is
\* its normalization) and the temp that materializes it
DerivedFrom(r, ident) ==
    BindingNames(r.bindings) \cup (IF r.out.tag = "Var" THEN {} ELSE {ident})

Precede(bindings, first, second) ==
    \A a \in first : \A b \in second :
        PositionOf(bindings, a) < PositionOf(bindings, b)

\* out is the normalization from st of an operation on first and second,
\* which it names first_ident and second_ident
TwoInOrder(first, second, st, out, first_ident, second_ident) ==
    out.st.ok =>
        Precede(out.bindings,
                DerivedFrom(normalize_base_expr(first, st), first_ident),
                DerivedFrom(normalize_base_expr(second,
                               normalize_base_expr(first, st).st), second_ident))

BinaryInOrder(e, st) ==
    CASE e.tag \in {"Add", "Mul"} ->
            TwoInOrder(e.left, e.right, st, normalize_base_expr(e, st),
                       normalize_base_expr(e, st).out.left,
                       normalize_base_expr(e, st).out.right)
      [] e.tag = "ArraySet" ->
            TwoInOrder(e.index, e.value, st, normalize_base_expr(e, st),
                       normalize_base_expr(e, st).out.index,
                       normalize_base_expr(e, st).out.value)
      [] OTHER -> TRUE

\* the bindings that come from operand k of the operands es normalized
\* from st, of which idents are the names
DerivedFromArg(es, st, idents, k) ==
    DerivedFrom(
        normalize_base_expr(es[k],
            normalize_operands(SubSeq(es, 1, k - 1), st, <<>>).st),
        idents[k])

ArgsInOrder(es, st, out, idents) ==
    out.st.ok =>
        \A k \in DOMAIN es : \A j \in DOMAIN es :
            k < j => Precede(out.bindings, DerivedFromArg(es, st, idents, k),
                             DerivedFromArg(es, st, idents, j))

OperandsInOrder(e, st) ==
    CASE e.tag = "Call" ->
            ArgsInOrder(e.args, st, normalize_base_expr(e, st),
                        normalize_base_expr(e, st).out.args)
      [] e.tag = "Map" ->
            ArgsInOrder(e.arrays, st, normalize_base_expr(e, st),
                        normalize_base_expr(e, st).out.arrays)
      [] OTHER -> TRUE

NormalizedFunDefs ==
    {i \in DOMAIN norm_out : norm_out[i].tag = "FunDef"}

\* C18: the bindings the normalizer produces stand in left-to-right
\* evaluation order.  For an Add, a Mul and an ArraySet every binding that
\* comes from the first operand (those hoisted out of it and the temp that
\* materializes it) stands before every binding that comes from the second;
\* for a Call and a Map the bindings of argument i stand before those of
\* argument i + 1 (and so of every later argument).
C18_BindingsLeftToRight ==
    \A i \in NormalizedFunDefs : \A s \in Sites(program[i]) :
        /\ BinaryInOrder(s[1], StateAt(program[i], s[2]))
        /\ OperandsInOrder(s[1], StateAt(program[i], s[2]))

\* the arguments of a Call and the arrays of a Map are in order
C18_ArgumentsInOrder ==
    \A i \in NormalizedFunDefs : \A s \in Sites(program[i]) :
        OperandsInOrder(s[1], StateAt(program[i], s[2]))

\* a[0] := x + y * 3: the temp of the index 0 stands after the temp of
\* y * 3, which comes from the value
C18_IndexAfterValueExample ==
    /\ NormOk
    /\ norm_out[3].body.base = ArraySet("a", "_tmp_2", "_tmp_3")
    /\ norm_out[3].body.lets[4] = BindLet("_tmp_1", i32, Mul("y_11", "_tmp_0"))
    /\ norm_out[3].body.lets[5] = BindLet("_tmp_2", i32, IntLit(0))


(***************************************************************************)
(* Lambda bodies (normalize_base_expr, Map and Reduce).                    *)
(***************************************************************************)
RECURSIVE OverParams(_, _)
\* an expression built of the names ps and integer literals with Add and Mul
OverParams(b, ps) ==
    CASE b.tag = "Var" -> b.name \in ps
      [] b.tag = "Int" -> TRUE
      [] b.tag \in {"Add", "Mul"} -> OverParams(b.left, ps) /\ OverParams(b.right, ps)
      [] OTHER -> FALSE

\* an operation with an operation for operand
NestedOperation(b) ==
    /\ b.tag \in {"Add", "Mul"}
    /\ \/ b.left.tag \in {"Add", "Mul"}
       \/ b.right.tag \in {"Add", "Mul"}

LambdaParams(e) ==
    IF e.tag = "Map" THEN {e.params[k] : k \in DOMAIN e.params}
    ELSE {e.param1, e.param2}

ArraysOf(e) == IF e.tag = "Map" THEN e.arrays ELSE <<e.array>>

\* every input array of e is a variable that st types as an array of i32
WellTypedArrays(e, st) ==
    \A k \in DOMAIN ArraysOf(e) :
        /\ ArraysOf(e)[k].tag = "Var"
        /\ get_type(st, ArraysOf(e)[k].name) # TypeErr
        /\ get_type(st, ArraysOf(e)[k].name).k = "Array"
        /\ get_type(st, ArraysOf(e)[k].name).elem = i32

\* the Maps and Reduces of the body of fundef over well-typed arrays whose
\* lambda body is an expression over the lambda parameters
LambdaSites(fundef) ==
    {s \in Sites(fundef) :
        /\ s[1].tag \in {"Map", "Reduce"}
        /\ StateAt(fundef, s[2]).ok
        /\ WellTypedArrays(s[1], StateAt(fundef, s[2]))
        /\ s[1].body.lets = <<>>
        /\ OverParams(s[1].body.base, LambdaParams(s[1]))}

\* C19: normalizing a Map or a Reduce whose input arrays are well typed and
\* whose lambda body holds a nested operation over the lambda parameters,
\* such as map(a, (x) => x * x + x), succeeds: the lambda parameters have
\* the element types of the arrays in the type environment when the temps
\* of the body are typed.
C19_NestedLambdaBodyNormalizes ==
    \A i \in {j \in DOMAIN program :
                 j <= Len(norm_out) + 1 /\ program[j].tag = "FunDef"} :
        \A s \in LambdaSites(program[i]) :
            NestedOperation(s[1].body.base) =>
                normalize_base_expr(s[1], StateAt(program[i], s[2])).st.ok

\* a lambda body with one operation over the parameters is normalized
C19_FlatLambdaBodyNormalizes ==
    \A i \in {j \in DOMAIN program :
                 j <= Len(norm_out) + 1 /\ program[j].tag = "FunDef"} :
        \A s \in LambdaSites(program[i]) :
            ~NestedOperation(s[1].body.base) =>
                normalize_base_expr(s[1], StateAt(program[i], s[2])).st.ok

\* map(v, (m) => m * m + m) has made normalize_program return an error
C19_NestedBodyExample ==
    /\ NormErr
    /\ program[2].body.lets = <<>>
    /\ program[2].body.base
          = Map(<<Var("v_3")>>, <<"m_6">>,
                Expr_(<<>>, Add(Mul(Var("m_6"), Var("m_6")), Var("m_6"))))

\* map(v, (m) => m * 2) has been normalized
C19_FlatBodyExample ==
    /\ NormOk
    /\ program[2].body.lets = <<>>
    /\ program[2].body.base
          = Map(<<Var("v_3")>>, <<"m_6">>,
                Expr_(<<>>, Mul(Var("m_6"), IntLit(2))))


(***************************************************************************)
(* The type of a materialized Map (infer_anormal_type).                    *)
(***************************************************************************)
\* the names a normalized function declares with a type: its parameters and
\* the names of its bindings
DeclaredTypes(fundef) ==
    {<<fundef.params[k].name, fundef.params[k].ty>> : k \in DOMAIN fundef.params}
    \cup {<<b.name, b.ty>> :
             b \in {c \in AllBindings(fundef.body) : c.tag = "BindLet"}}

\* the temps of a normalized function that hold a Map
MapTemps(fundef) ==
    {t \in AllBindings(fundef.body) : IsTempLet(t) /\ t.value.tag = "Map"}

\* e has a Map without arrays for operand, which is then materialized
EmptyMapOperand(e) ==
    \E o \in (CASE e.tag \in {"Add", "Mul"} -> {e.left, e.right}
                [] e.tag = "ArraySet" -> {e.index, e.value}
                [] e.tag = "Call" -> Range(e.args)
                [] e.tag = "Map" -> Range(e.arrays)
                [] e.tag = "Reduce" -> {e.array}
                [] OTHER -> {}) :
        o.tag = "Map" /\ o.arrays = <<>>

\* C20: the type recorded for a temp that holds a Map is taken from the
\* first input array alone (it is the type under which the first array is
\* declared, element type included), whatever the other arrays and the
\* lambda body are; materializing a Map with no input array is a type
\* inference error.
C20_MapTypeFromFirstArray ==
    /\ \A i \in NormalizedFunDefs : \A t \in MapTemps(norm_out[i]) :
          /\ t.value.arrays # <<>>
          /\ <<t.value.arrays[1], t.ty>> \in DeclaredTypes(norm_out[i])
    /\ \A i \in {j \in DOMAIN program :
                    j <= Len(norm_out) + 1 /\ program[j].tag = "FunDef"} :
          \A s \in Sites(program[i]) :
              (StateAt(program[i], s[2]).ok /\ EmptyMapOperand(s[1])) =>
                  ~normalize_base_expr(s[1], StateAt(program[i], s[2])).st.ok

\* map(new_array<bool>[2], v, (m, n) => n) as an operand: its temp has the
\* type of the first array although the second array and the body are i32
C20_Witness ==
    /\ NormOk
    /\ \E t \in MapTemps(norm_out[2]) :
          /\ Len(t.value.arrays) = 2
          /\ t.value.arrays[2] = "v_3"
          /\ t.value.body.base = Var("n_7")
          /\ t.ty = TArray(bool, MaxLen)
          /\ <<"v_3", t.ty>> \notin DeclaredTypes(norm_out[2])

\* x * map((), () => 1) has made normalize_program return an error
C20_EmptyMapExample ==
    /\ NormErr
    /\ program[2].body.lets = <<>>
    /\ program[2].body.base = Mul(Var("x_1"), Map(<<>>, <<>>, Expr_(<<>>, IntLit(1))))


(***************************************************************************)
(* Properties of the cells, names and wires of the generated components.   *)
(***************************************************************************)
\* main and the components of the functions
Components(cv) == <<cv.program.main>> \o cv.program.components

\* the cells of comp that are an operator of one kind and width
OperatorCells(comp, kind, width) ==
    {i \in DOMAIN comp.cells :
        comp.cells[i].circuit = [k |-> kind, width |-> width]}

OneCellOf(kinds) ==
    \A c \in Range(Components(calyx)) : \A kind \in kinds : \A width \in {1, 32} :
        Cardinality(OperatorCells(c, kind, width)) <= 1

\* C21: in each generated component there is at most one adder, one
\* multiplier and one less-than comparator of each width: every Add, Mul,
\* Map and Reduce that needs an operator of a kind and width uses the same
\* cell and makes no new one.
C21_OneOperatorCellPerWidth ==
    Generated => OneCellOf({"StdAdd", "StdMul", "StdLt"})

\* let x = 1 in let y = x + x in out[0] := y + y has two adders of width 32
C21_TwoAddersExample ==
    /\ Generated
    /\ program = TwoSums
    /\ Cardinality(OperatorCells(MainOf(calyx), "StdAdd", 32)) = 2

\* a Map followed by a Reduce has two comparators of width 32
C21_TwoComparatorsExample ==
    /\ Generated
    /\ program = MapThenReduce(MaxLen)
    /\ Cardinality(OperatorCells(MainOf(calyx), "StdLt", 32)) = 2


\* the Par nodes of a control
RECURSIVE Pars(_)
Pars(c) ==
    IF c.k = "GroupName" THEN {}
    ELSE (IF c.k = "Par" THEN {c} ELSE {})
         \cup UNION {Pars(c.body[i]) : i \in DOMAIN c.body}

\* the cells whose ports the groups of a control drive, and the cells whose
\* ports they read
DrivenCells(comp, c) ==
    UNION {{w.dest.cell : w \in Range(group_of(comp, g).wires)} : g \in GroupsIn(c)}

ReadCells(comp, c) ==
    UNION {{w.src.port.cell :
               w \in {v \in Range(group_of(comp, g).wires) : v.src.k = "Port"}}
           : g \in GroupsIn(c)}

\* the branches of the Par p drive disjoint cells and none reads a cell that
\* another drives
BranchesIndependent(comp, p) ==
    \A i \in DOMAIN p.body : \A j \in DOMAIN p.body :
        i # j =>
           /\ DrivenCells(comp, p.body[i]) \cap DrivenCells(comp, p.body[j]) = {}
           /\ ReadCells(comp, p.body[i]) \cap DrivenCells(comp, p.body[j]) = {}

\* the groups of a control that drive a port of a shared adder or multiplier
UsesShared(comp, c) ==
    {g \in GroupsIn(c) :
        \E w \in Range(group_of(comp, g).wires) :
            /\ has_cell(comp, w.dest.cell)
            /\ circuit_of(comp, w.dest.cell).k \in {"StdAdd", "StdMul"}}

ParsIndependent(comp) ==
    \A p \in Pars(Control_Seq(comp.control)) :
        /\ BranchesIndependent(comp, p)
        /\ Len(p.body) = 2
        /\ \A i \in DOMAIN p.body :
              /\ p.body[i].k = "GroupName"
              /\ UsesShared(comp, p.body[i]) = {}

\* C22: in every control the generator produces the branches of every Par
\* drive pairwise disjoint cells and no branch reads a register or memory
\* that another branch writes.  The only Par is the initialisation of a
\* Reduce, whose two branches are the groups that write the counter and
\* the accumulator, two distinct cells; no group that drives a shared adder
\* or multiplier stands in a Par branch.
C22_ParBranchesIndependent ==
    Generated => \A c \in Range(Components(calyx)) : ParsIndependent(c)

\* the same for the programs whose cell names are pairwise distinct
C22_IndependentWhenNamesDistinct ==
    Generated =>
       \A c \in Range(Components(calyx)) :
           ~duplicate_cells(c) => ParsIndependent(c)

\* reduce(a, (y * 2) * 3, ..): the counter of the Reduce has the name of
\* the register of the product, which the other branch reads
C22_SharedRegisterExample ==
    /\ Generated
    /\ program = ReduceFromProduct
    /\ \E p \in Pars(Control_Seq(MainOf(calyx).control)) :
          /\ "_tmp_3" \in DrivenCells(MainOf(calyx), p.body[1])
          /\ "_tmp_3" \in ReadCells(MainOf(calyx), p.body[2])


LastCell(comp) == comp.cells[Len(comp.cells)]
LastGroup(comp) == comp.wires.groups[Len(comp.wires.groups)]

\* r is the lowering of the Add e into dest from cv: a new adder wired
\* statically, no group, no control
AddLowered(cv, e, dest, r) ==
    /\ r.cv.ok
    /\ r.out = Control_empty
    /\ Current(r.cv).wires.groups = Current(cv).wires.groups
    /\ Current(r.cv).cells # <<>>
    /\ LastCell(Current(r.cv)).circuit = StdAdd(32)
    /\ Current(r.cv).wires.static_wires
          = Current(cv).wires.static_wires
            \o <<Wire(Port(LastCell(Current(r.cv)).name, "left"),
                      find_src_by_var(cv, e.left)),
                 Wire(Port(LastCell(Current(r.cv)).name, "right"),
                      find_src_by_var(cv, e.right))>>
    /\ r.cv.env = insert(cv.env, dest, SrcPort(LastCell(Current(r.cv)).name, "out"))

\* g drives left, right and go of the multiplier mult and writes the
\* register dest when mult is done
DrivesMul(cv, e, dest, mult, g) ==
    /\ g.wires = <<Wire(Port(mult, "left"), find_src_by_var(cv, e.left)),
                   Wire(Port(mult, "right"), find_src_by_var(cv, e.right)),
                   Wire(Port(mult, "go"), SrcInt(1, 1)),
                   Wire(Port(dest, "in"), SrcPort(mult, "out")),
                   Wire(Port(dest, "write_en"), SrcPort(mult, "done"))>>
    /\ g.done = SrcPort(dest, "done")

\* r is the lowering of the Mul e into dest from cv: one group, a register
\* named dest, a control step for the group
MulLowered(cv, e, dest, r) ==
    /\ r.cv.ok
    /\ Current(r.cv).wires.groups
          = Append(Current(cv).wires.groups, LastGroup(Current(r.cv)))
    /\ \E c \in DOMAIN Current(r.cv).cells :
          /\ Current(r.cv).cells[c].circuit = StdMul(32)
          /\ DrivesMul(cv, e, dest, Current(r.cv).cells[c].name,
                       LastGroup(Current(r.cv)))
    /\ Cell(dest, FALSE, FALSE, StdReg(32)) \in Range(Current(r.cv).cells)
    /\ r.out = Control_GroupName(LastGroup(Current(r.cv)).name)
    /\ Current(r.cv).wires.static_wires = Current(cv).wires.static_wires
    /\ r.cv.env = insert(cv.env, dest, SrcPort(dest, "out"))

\* the positions in the control of main of the groups that drive a port of
\* the cell of the given name
StepsDriving(cell) ==
    {i \in DOMAIN MainOf(calyx).control[1].body :
        /\ MainOf(calyx).control[1].body[i].k = "GroupName"
        /\ cell \in DrivenCells(MainOf(calyx), MainOf(calyx).control[1].body[i])}

\* C23: lowering an Add with a destination makes no group and returns the
\* empty control (two static wires to left and right of an adder, the
\* destination bound to its out port); lowering a Mul with a destination
\* makes exactly one group (left and right of the multiplier driven, go
\* asserted, the destination register written when the multiplier is done,
\* the group done with the register) and returns a control step naming it;
\* in the control of out[0] := x + y * 3 the group of the multiplication
\* stands strictly before the group that writes the array.
C23_AddStaticMulOneGroup ==
    Generated =>
       /\ \A l \in TopLets("Add") :
             AddLowered(calyx, l.value, "d_9",
                        convert_base_expr(calyx, l.value, "d_9"))
       /\ \A l \in TopLets("Mul") :
             MulLowered(calyx, l.value, "d_9",
                        convert_base_expr(calyx, l.value, "d_9"))
       /\ program = BuiltIn =>
             /\ Len(MainOf(calyx).control) = 1
             /\ Len(MainOf(calyx).control[1].body) = 2
             /\ Len(MainOf(calyx).wires.groups) = 2
             /\ StepsDriving("mult_w32") = {1}
             /\ StepsDriving("out") = {2}
             /\ Len(MainOf(calyx).wires.static_wires) = 2

\* out[0] := x + y * 3 has been generated: the product is a group, the sum
\* two static wires, and the store follows the product
C23_Witness ==
    /\ Generated
    /\ program = BuiltIn
    /\ Cardinality(TopLets("Add")) = 1
    /\ Cardinality(TopLets("Mul")) = 1
    /\ MainOf(calyx).control
          = <<Control_Seq(<<Control_GroupName(MainOf(calyx).wires.groups[1].name),
                            Control_GroupName(MainOf(calyx).wires.groups[2].name)>>)>>
    /\ MainOf(calyx).wires.groups[1].wires[3] = Wire(Port("mult_w32", "go"), SrcInt(1, 1))
    /\ MainOf(calyx).wires.groups[2].wires[2].dest = Port("out", "write_data")


\* a lambda body that has an operation lowered to a group
MakesGroups(body) ==
    \/ body.base.tag \in {"Mul", "Reduce", "Map", "ArraySet"}
    \/ \E i \in DOMAIN body.lets :
          /\ body.lets[i].tag = "BindLet"
          /\ body.lets[i].value.tag \in {"Mul", "Reduce", "Map", "ArraySet"}

\* the group named by step i of the sequence of controls steps
StepGroup(comp, steps, i) == group_of(comp, steps[i].name)

\* the step c of component comp initialises the register counter to zero
InitialisesCounter(comp, c, counter) ==
    /\ c.k = "GroupName"
    /\ group_of(comp, c.name).wires
          = <<Wire(Port(counter, "in"), SrcInt(ADDRESS_WIDTH, 0)),
              Wire(Port(counter, "write_en"), SrcInt(1, 1))>>
    /\ group_of(comp, c.name).done = SrcPort(counter, "done")

\* the guard of the loop w compares the counter with the length of the
\* first array and has no done signal
GuardCompares(cv, comp, e, w, counter) ==
    /\ circuit_of(comp, w.condition.cell) = StdLt(ADDRESS_WIDTH)
    /\ w.condition.port = "out"
    /\ group_of(comp, w.with).done = NoSrc
    /\ group_of(comp, w.with).wires
          = <<Wire(Port(w.condition.cell, "left"), SrcPort(counter, "out")),
              Wire(Port(w.condition.cell, "right"),
                   SrcInt(ADDRESS_WIDTH,
                          circuit_of(comp,
                             find_src_by_var(cv, Head(e.arrays)).port.cell).len))>>

\* the steps loads are one group for each parameter, in the order of the
\* parameters: group i reads array i at the counter into the register to
\* which parameter i is bound
LoadsInOrder(cv, after, comp, e, loads, counter) ==
    /\ loads.k = "Seq"
    /\ Len(loads.body) = Len(e.params)
    /\ \A i \in DOMAIN loads.body :
          /\ loads.body[i].k = "GroupName"
          /\ after.env[e.params[i]].k = "Port"
          /\ StepGroup(comp, loads.body, i).wires
                = <<Wire(Port_port(find_src_by_var(cv, e.arrays[i]).port, "addr0"),
                         SrcPort(counter, "out")),
                    Wire(Port(after.env[e.params[i]].port.cell, "in"),
                         find_src_by_var(cv, e.arrays[i])),
                    Wire(Port(after.env[e.params[i]].port.cell, "write_en"),
                         SrcInt(1, 1))>>

\* the step c stores a value at the counter into the array bound to dest
StoresResult(after, comp, c, dest, counter) ==
    /\ c.k = "GroupName"
    /\ Len(group_of(comp, c.name).wires) = 3
    /\ group_of(comp, c.name).wires[1]
          = Wire(Port(after.env[dest].port.cell, "addr0"), SrcPort(counter, "out"))
    /\ group_of(comp, c.name).wires[2].dest
          = Port(after.env[dest].port.cell, "write_data")
    /\ group_of(comp, c.name).wires[3]
          = Wire(Port(after.env[dest].port.cell, "write_en"), SrcInt(1, 1))

\* the step c adds one to the counter
IncrementsCounter(comp, c, counter) ==
    /\ c.k = "GroupName"
    /\ Len(group_of(comp, c.name).wires) = 4
    /\ circuit_of(comp, group_of(comp, c.name).wires[1].dest.cell).k = "StdAdd"
    /\ group_of(comp, c.name).wires[1].src = SrcPort(counter, "out")
    /\ group_of(comp, c.name).wires[2].src = SrcInt(ADDRESS_WIDTH, 1)
    /\ group_of(comp, c.name).wires[3]
          = Wire(Port(counter, "in"),
                 SrcPort(group_of(comp, c.name).wires[1].dest.cell, "out"))
    /\ group_of(comp, c.name).wires[4]
          = Wire(Port(counter, "write_en"), SrcInt(1, 1))

\* r is the lowering of the Map e into dest from cv
MapLowered(cv, e, dest, r, counter) ==
    /\ r.cv.ok
    /\ r.out.k = "Seq"
    /\ Len(r.out.body) = 2
    /\ InitialisesCounter(Current(r.cv), r.out.body[1], counter)
    /\ r.out.body[2].k = "While"
    /\ GuardCompares(cv, Current(r.cv), e, r.out.body[2], counter)
    /\ Len(r.out.body[2].body) = (IF MakesGroups(e.body) THEN 4 ELSE 3)
    /\ LoadsInOrder(cv, r.cv, Current(r.cv), e, r.out.body[2].body[1], counter)
    /\ MakesGroups(e.body) => ~is_empty(r.out.body[2].body[2])
    /\ StoresResult(r.cv, Current(r.cv),
                    r.out.body[2].body[Len(r.out.body[2].body) - 1],
                    dest, counter)
    /\ IncrementsCounter(Current(r.cv),
                         r.out.body[2].body[Len(r.out.body[2].body)], counter)

\* the register that the first step of the lowering r writes
CounterOf(r) ==
    group_of(Current(r.cv), r.out.body[1].name).wires[1].dest.cell

\* C24: the control of a Map is a Seq of the group that initialises the
\* counter and one While; the condition of the While is the out port of a
\* comparator, its guard group has no done signal and wires the counter to
\* left and the constant length of the first array to right; the body of the
\* While is, in order, the groups that load the arguments (in the order of
\* the parameters), the lowered body of the lambda (left out when it is
\* empty), the group that stores the result, the group that increments the
\* counter.
C24_MapControlShape ==
    Generated =>
       \A l \in TopLets("Map") :
          MapLowered(calyx, l.value, "d_9",
                     convert_base_expr(calyx, l.value, "d_9"),
                     CounterOf(convert_base_expr(calyx, l.value, "d_9")))

\* a Map over two arrays whose body is one addition (no step for the body)
\* and a Map whose body multiplies (a step for the body) have been generated
C24_Witness ==
    /\ Generated
    /\ program = MapAdd(MaxLen)
    /\ Cardinality(TopLets("Map")) = 1
    /\ MainOf(calyx).control[1].body[1].body[2].k = "While"
    /\ Len(MainOf(calyx).control[1].body[1].body[2].body) = 3
    /\ Len(MainOf(calyx).control[1].body[1].body[2].body[1].body) = 2

C24_BodyStepExample ==
    /\ Generated
    /\ program = MapScaled(MaxLen, 1)
    /\ Len(MainOf(calyx).control[1].body[1].body[2].body) = 4


\* C25: after generation the names of the cells of one component are
\* pairwise distinct: a name made by fresh_name never coincides with a name
\* that comes from a variable of the program (the register of a Mul, named
\* after its destination, an array parameter, an external memory, _out).
C25_CellNamesDistinct ==
    Generated => \A c \in Range(Components(calyx)) : ~duplicate_cells(c)

\* out[0] := x + y * 3: the register of the product _tmp_1 = y * _tmp_0 and
\* the adder of the sum, named by fresh_name, are both the cell _tmp_1
C25_AdderNamedAsRegisterExample ==
    /\ Generated
    /\ program = BuiltIn
    /\ Cell("_tmp_1", FALSE, FALSE, StdReg(32)) \in Range(MainOf(calyx).cells)
    /\ Cell("_tmp_1", FALSE, FALSE, StdAdd(32)) \in Range(MainOf(calyx).cells)


RECURSIVE AnfBinders(_)
RECURSIVE AnfBindersOfLets(_)
\* the names that an ANF expression binds, in order: let-bound names and
\* lambda parameters, those of lambda bodies included
AnfBindersOfBase(e) ==
    CASE e.tag = "Map" -> e.params \o AnfBinders(e.body)
      [] e.tag = "Reduce" -> <<e.param1, e.param2>> \o AnfBinders(e.body)
      [] OTHER -> <<>>

AnfBindersOfLets(lets) ==
    IF lets = <<>> THEN <<>>
    ELSE AnfBindersOfBase(Head(lets).value)
         \o (IF Head(lets).tag = "BindLet" THEN <<Head(lets).name>> ELSE <<>>)
         \o AnfBindersOfLets(Tail(lets))

AnfBinders(expr) == AnfBindersOfLets(expr.lets) \o AnfBindersOfBase(expr.base)

\* the names present in the function fundef of the alpha-converted program
\* prog: its binders, the externals and the function names
NamesPresent(prog, fundef) ==
    Range(BindersTop(fundef)) \cup {prog[i].name : i \in DOMAIN prog}

\* the names of the first n temps
FirstTemps(n) == {temp_format(k) : k \in 0..(n - 1)}

\* the normalized function out binds n names more than fundef: they are the
\* first n temps, each bound once, none a name present in fundef
TempsFresh(prog, fundef, out, n) ==
    /\ n >= 0
    /\ FirstTemps(n) \subseteq Range(AnfBinders(out.body))
    /\ Cardinality({j \in DOMAIN AnfBinders(out.body) :
                       AnfBinders(out.body)[j] \in FirstTemps(n)}) = n
    /\ FirstTemps(n) \cap NamesPresent(prog, fundef) = {}

\* C26: within one function the temps of the normalizer are numbered from
\* _tmp_0 without a gap, are pairwise distinct and never equal a name that
\* the alpha-converted function already holds (a parameter, a let-bound
\* name, a lambda parameter, an external, a function name), so that no temp
\* shadows a variable of the program.
C26_TempsNeverShadow ==
    AlphaDone =>
       \A i \in DOMAIN alpha_out :
          (alpha_out[i].tag = "FunDef" /\ normalize_fundef(alpha_out[i]).ok)
          => TempsFresh(alpha_out, alpha_out[i], normalize_fundef(alpha_out[i]).out,
                        Len(AnfBinders(normalize_fundef(alpha_out[i]).out.body))
                        - Len(BindersExpr(alpha_out[i].body)))

\* let _tmp = 1 in _tmp + 2 in a main that stands before the function: alpha
\* conversion names the variable _tmp_0, the normalizer names the temp of
\* the literal 2 _tmp_0 too, and the sum adds the temp to itself
C26_ShadowExample ==
    /\ AlphaDone
    /\ program[2].name = "main"
    /\ program[2].body = TmpBody
    /\ alpha_out[2].body.lets = <<BindLet("_tmp_0", i32, IntLit(1))>>
    /\ normalize_fundef(alpha_out[2]).ok
    /\ normalize_fundef(alpha_out[2]).out.body
          = Expr_(<<BindLet("_tmp_0", i32, IntLit(1)),
                    BindLet("_tmp_0", i32, IntLit(2))>>,
                  Add("_tmp_0", "_tmp_0"))

\* the same main after the function: the variable is _tmp_N with N > 0 and
\* the one temp _tmp_0 shadows nothing
C26_NoShadowExample ==
    /\ AlphaDone
    /\ program[3].name = "main"
    /\ program[3].body = TmpBody
    /\ normalize_fundef(alpha_out[3]).ok
    /\ TempsFresh(alpha_out, alpha_out[3], normalize_fundef(alpha_out[3]).out, 1)


\* the Converter on entry to the body of main (convert_fundef: the signature
\* of main recorded, main the current component, no result variable)
MainEntry ==
    [After(Len(program) - 1) EXCEPT
        !.fun_type_env = insert(@, "main", [params |-> <<>>, result_ty |-> NoType]),
        !.current_func = "main"]

\* the Converter before binding j of main
BeforeLet(j) == convert_lets(MainEntry, SubSeq(MainBody.lets, 1, j - 1), <<>>).cv

\* the names that a binding of the ANF program binds
BoundBy(l) ==
    Range(AnfBindersOfBase(l.value))
    \cup (IF l.tag = "BindLet" THEN {l.name} ELSE {})

RECURSIVE ReferencedInExpr(_)
RECURSIVE ReferencedInLets(_)
\* the variables that an ANF expression names
ReferencedInBase(e) ==
    CASE e.tag = "Var" -> {e.name}
      [] e.tag \in {"Add", "Mul"} -> {e.left, e.right}
      [] e.tag = "Call" -> Range(e.args)
      [] e.tag = "ArraySet" -> {e.name, e.index, e.value}
      [] e.tag = "Map" -> Range(e.arrays) \cup ReferencedInExpr(e.body)
      [] e.tag = "Reduce" -> {e.array, e.init_value} \cup ReferencedInExpr(e.body)
      [] OTHER -> {}

ReferencedInLets(lets) ==
    IF lets = <<>> THEN {}
    ELSE ReferencedInBase(Head(lets).value) \cup ReferencedInLets(Tail(lets))

ReferencedInExpr(expr) == ReferencedInLets(expr.lets) \cup ReferencedInBase(expr.base)

\* the variables of main that are named after binding j
ReferencedAfter(j) ==
    ReferencedInLets(SubSeq(MainBody.lets, j + 1, Len(MainBody.lets)))
    \cup ReferencedInBase(MainBody.base)

\* binding j of main leaves the environment entry of every variable that it
\* does not bind itself and that is named later as it was
KeepsBindings(j) ==
    \A v \in (DOMAIN BeforeLet(j).env \cap ReferencedAfter(j))
             \ BoundBy(MainBody.lets[j]) :
        BeforeLet(j + 1).env[v] = BeforeLet(j).env[v]

\* C27: in the flat environment of the generator the binding of a variable
\* of the program or of a temp is never overwritten between its definition
\* and its last use by a key of the generator: the result variable of a
\* function and the body-result variable of a Map or Reduce, all made by
\* fresh_name, never equal a variable of the ANF program that is named later.
C27_KeysNeverOverwriteVariables ==
    (Generated /\ calyx.ok) => \A j \in DOMAIN MainBody.lets : KeepsBindings(j)

\* the body-result variable of the Reduce is _tmp_8: the variable _tmp_8,
\* bound to 5 before the Reduce, is bound to the output of the adder of the
\* body after it, and the store writes that output
C27_OverwrittenExample ==
    /\ Generated
    /\ program = KeptAcrossReduce
    /\ BeforeLet(11).env["_tmp_8"] = SrcInt(32, 5)
    /\ BeforeLet(12).env["_tmp_8"].k = "Port"
    /\ circuit_of(MainOf(calyx), BeforeLet(12).env["_tmp_8"].port.cell).k = "StdAdd"
    /\ \E g \in Range(MainOf(calyx).wires.groups) :
          \E i \in DOMAIN g.wires :
             /\ g.wires[i].dest = Port("out", "write_data")
             /\ g.wires[i].src = BeforeLet(12).env["_tmp_8"]

\* the replay of the bindings of main gives the environment of the
\* generated program
C27_ReplayExample ==
    /\ Generated
    /\ calyx.ok
    /\ program = MapScaled(MaxLen, 1)
    /\ BeforeLet(Len(MainBody.lets) + 1).env = calyx.env


RECURSIVE StepRefs(_)
RECURSIVE StepRefsOfSeq(_)
\* the names of the groups that a control runs as steps, one entry for each
\* GroupName node
StepRefs(c) ==
    IF c.k = "GroupName" THEN <<c.name>> ELSE StepRefsOfSeq(c.body)

StepRefsOfSeq(cs) ==
    IF cs = <<>> THEN <<>> ELSE StepRefs(Head(cs)) \o StepRefsOfSeq(Tail(cs))

RECURSIVE GuardRefs(_)
RECURSIVE GuardRefsOfSeq(_)
\* the names of the groups that a control names as guard of a While, one
\* entry for each While node
GuardRefs(c) ==
    IF c.k = "GroupName" THEN <<>>
    ELSE (IF c.k = "While" THEN <<c.with>> ELSE <<>>) \o GuardRefsOfSeq(c.body)

GuardRefsOfSeq(cs) ==
    IF cs = <<>> THEN <<>> ELSE GuardRefs(Head(cs)) \o GuardRefsOfSeq(Tail(cs))

GroupNames(comp) == [i \in DOMAIN comp.wires.groups |-> comp.wires.groups[i].name]

RECURSIVE AllGroupNames(_)
\* the names of the groups of a sequence of components, in order
AllGroupNames(comps) ==
    IF comps = <<>> THEN <<>>
    ELSE GroupNames(Head(comps)) \o AllGroupNames(Tail(comps))

\* how often the name occurs in the sequence
Occurrences(names, name) == Cardinality({i \in DOMAIN names : names[i] = name})

\* every reference of the control of comp names a group of comp, every group
\* of comp is referenced once, and a group without done only as a guard
ControlMatchesGroups(comp) ==
    /\ Range(StepRefsOfSeq(comp.control)) \cup Range(GuardRefsOfSeq(comp.control))
          \subseteq Range(GroupNames(comp))
    /\ \A g \in Range(comp.wires.groups) :
          /\ Occurrences(StepRefsOfSeq(comp.control), g.name)
                + Occurrences(GuardRefsOfSeq(comp.control), g.name) = 1
          /\ g.done = NoSrc => Occurrences(StepRefsOfSeq(comp.control), g.name) = 0

\* C28: after a successful convert the names of the groups are pairwise
\* distinct over the whole program; every GroupName step and every guard of
\* a While names a group of the same component; every group is referenced
\* exactly once by the control of its component; a group without a done
\* signal is referenced only as the guard of a While.
C28_ControlNamesEveryGroupOnce ==
    (phase = "converted" /\ calyx.ok) =>
       /\ NoDuplicates(AllGroupNames(Components(calyx)))
       /\ \A c \in Range(Components(calyx)) : ControlMatchesGroups(c)

\* a function with a result group and a main that maps over an array: two
\* components with groups, one of them the guard of a While
C28_Witness ==
    /\ phase = "converted"
    /\ calyx.ok
    /\ Len(calyx.program.components) >= 1
    /\ calyx.program.components[1].wires.groups # <<>>
    /\ GuardRefsOfSeq(MainOf(calyx).control) # <<>>
    /\ group_of(MainOf(calyx), GuardRefsOfSeq(MainOf(calyx).control)[1]).done = NoSrc
    /\ Len(StepRefsOfSeq(MainOf(calyx).control)) >= 3


RECURSIVE ConditionCells(_)
\* the cells whose port is the condition of a While of the control
ConditionCells(c) ==
    IF c.k = "GroupName" THEN {}
    ELSE (IF c.k = "While" THEN {c.condition.cell} ELSE {})
         \cup UNION {ConditionCells(c.body[i]) : i \in DOMAIN c.body}

\* the cells that the wires of a sequence of wires name, as destination or
\* as source
CellsOfWires(wires) ==
    {wires[i].dest.cell : i \in DOMAIN wires}
    \cup {wires[i].src.port.cell : i \in {j \in DOMAIN wires : wires[j].src.k = "Port"}}

\* the cells that a component names in its static wires, in the wires and
\* done signals of its groups and in the conditions of its control
CellsNamed(comp) ==
    CellsOfWires(comp.wires.static_wires)
    \cup UNION {CellsOfWires(g.wires) : g \in Range(comp.wires.groups)}
    \cup {g.done.port.cell : g \in {h \in Range(comp.wires.groups) : h.done.k = "Port"}}
    \cup ConditionCells(Control_Seq(comp.control))

\* the cells and the ports that a component declares
NamesDeclared(comp) ==
    {comp.cells[i].name : i \in DOMAIN comp.cells}
    \cup {comp.params[i].name : i \in DOMAIN comp.params}
    \cup {comp.result[i].name : i \in DOMAIN comp.result}

\* C29: every cell that a wire of a component names is declared among the
\* cells of that component or is one of its ports; a function other than
\* main that uses an external array gets no wire to a memory that only main
\* declares.
C29_WiresNameDeclaredCells ==
    (Generated /\ calyx.ok) =>
       \A c \in Range(Components(calyx)) : CellsNamed(c) \subseteq NamesDeclared(c)

\* fn t(i) = a[0] := i: the group of the store in component t_0 drives
\* a.write_data, and the memory a is a cell of main only
C29_ExternalInFunctionExample ==
    /\ Generated
    /\ calyx.ok
    /\ program = StoreInFunction
    /\ calyx.program.components[1].name = "t_0"
    /\ Port("a", "write_data")
          \in {w.dest : w \in UNION {Range(g.wires) :
                           g \in Range(calyx.program.components[1].wires.groups)}}
    /\ ~has_cell(calyx.program.components[1], "a")
    /\ has_cell(MainOf(calyx), "a")


\* the memories that the Maps of main read
MapInputCells ==
    UNION {{calyx.env[l.value.arrays[i]].port.cell : i \in DOMAIN l.value.arrays}
           : l \in TopLets("Map")}

\* the Map e has one parameter for each array and arrays of one length
EvenMap(e) ==
    /\ Len(e.params) = Len(e.arrays)
    /\ \A i \in DOMAIN e.arrays :
          calyx.type_env[e.arrays[i]].n = calyx.type_env[e.arrays[1]].n

\* the group about to run puts on addr0 of every memory that a Map reads an
\* address below the length of the memory
InputAddressesInRange ==
    \A s \in {t \in Steps(MainOf(calyx), machine.todo, machine) : t.kind = "group"} :
       \A w \in Range(group_of(MainOf(calyx), s.name).wires) :
          (w.dest.port = "addr0" /\ w.dest.cell \in MapInputCells)
          => in_range(circuit_of(MainOf(calyx), w.dest.cell),
                      address(MainOf(calyx), s.name, machine, w.dest.cell))

\* C30: every Map that the generator accepts has as many parameters as
\* arrays and arrays of one length (a Map with arrays of different lengths
\* or with another number of parameters is rejected with an error), and
\* every address that the generated loop puts on addr0 of an input array is
\* smaller than the declared length of that array.
C30_MapInputsInRange ==
    /\ (Generated /\ calyx.ok) => \A l \in TopLets("Map") : EvenMap(l.value)
    /\ phase = "run" => InputAddressesInRange

\* map(a, b, (x, y) => x + y) with a: i32[4] and b: i32[2] is accepted, the
\* loop runs to the length of a, and in its third iteration the load of y
\* addresses b at 2
C30_ShortArrayExample ==
    /\ phase = "fault"
    /\ program = MapUneven
    /\ calyx.ok
    /\ \E c \in CellNames(MainOf(calyx), "StdReg") : machine.regs[c] = MaxLen
    /\ \E s \in Steps(MainOf(calyx), machine.todo, machine) :
          /\ s.kind = "group"
          /\ address(MainOf(calyx), s.name, machine, "b") = MaxLen

\* map(a, b, (x) => x + x) is accepted and runs to its end; b is not read
C30_OneParameterExample ==
    /\ Ran
    /\ program = MapOneParameter
    /\ calyx.ok
    /\ \A g \in Range(MainOf(calyx).wires.groups) :
          \A i \in DOMAIN g.wires : g.wires[i].dest.cell # "b"

\* the Maps of equal lengths and matching parameters stay inside their arrays
C30_InRangeWhenEven ==
    (phase = "run" /\ \A l \in TopLets("Map") : EvenMap(l.value))
    => InputAddressesInRange

=============================================================================
